---- MODULE Spec2Model ----
(***************************************************************************)
(* googleroutes: the Configuration Store (config.py), the route decoding   *)
(* helpers (_utils/_route_utils.py) and the two batch operations           *)
(* generate_from_kml / generate_from_isochrones (routing.py), and the      *)
(* extension checks (_utils/_ext_checks.py).                               *)
(*                                                                         *)
(* The library is single-threaded and synchronous.  One step of the model  *)
(* is one call of a public function, run to completion (normally or by an  *)
(* exception); the call's outcome is then visible in op/arg/raised/value/  *)
(* trace until the caller resumes (Return).                                *)
(*                                                                         *)
(* Spec          the public functions, called in any order                 *)
(* SpecPolyline  _get_polyline_from_route applied to one response          *)
(* SpecAssemble  the statements that assemble, write and plot one value    *)
(*               of coords                                                 *)
(* SpecRows      the statements that assemble, write and plot the routes   *)
(*               of the rows of one table                                  *)
(* SpecPlot      _plot_routes applied to one value of routes               *)
(* SpecPoints    create_school_shapefile or create_multi_points_shapefile  *)
(*               applied to one input                                      *)
(* SpecExt       choose_driver or check_file_extension applied to one path *)
(* SpecCrs       convert_crs or _convert_crs_file applied to one disk      *)
(***************************************************************************)
EXTENDS Integers, Sequences, FiniteSets, TLC

VARIABLES
    config,     \* the singleton's instance attributes: attribute name -> value
    nclients,   \* number of gm.Client objects constructed so far
    op,         \* the public function that has just returned, "idle" if none
    arg,        \* the arguments of that call
    raised,     \* the exception that call raised, NoError if it returned
    value,      \* the value that call returned
    trace       \* what that call did to the outside: requests, files, maps

vars == <<config, nclients, op, arg, raised, value, trace>>

----------------------------------------------------------------------------
(* Bounds of the model *)

\* clients a process constructs
MaxClients == 2

\* rows of the table given to generate_from_isochrones
MaxRows == 2

\* points in the KML file given to generate_from_kml
MaxKmlPoints == 2

\* legs of a route and steps of a leg in a directions response
MaxLegs == 2

MaxSteps == 2

\* rows of a table that mixes polygons and multipolygons
MaxMixedRows == 3

\* entries of a directory
MaxEntries == 3

\* rows of a table of points
MaxPoints == 3

\* rows of a table whose routes are given
MaxPlotRows == 3

\* routes of a RouteSet and [lat, lng] pairs of a route handed to the assembler
MaxRoutes == 2

MaxVertices == 3

----------------------------------------------------------------------------
(* Python values *)

\* None, where the program expects a string (crs, api_key, driver, a path)
None == "None"

\* None, where the program expects an object (the client)
NoneObject == [none |-> TRUE]

\* `not v` for a string-or-None value
Falsy(v) == v = None \/ v = ""

NoError == [type |-> "none", msg |-> ""]

Error(type, msg) == [type |-> type, msg |-> msg]

HasAttr(obj, name) == name \in DOMAIN obj

\* del obj.name
DelAttr(obj, name) == [a \in DOMAIN obj \ {name} |-> obj[a]]

\* obj.name = v
SetAttr(obj, name, v) == [a \in DOMAIN obj \cup {name} |-> IF a = name THEN v ELSE obj[a]]

----------------------------------------------------------------------------
(* Python lists and the values the directions service returns *)

\* [] / a list
List(items) == [type |-> "list", items |-> items]

\* {}
EmptyDict == [type |-> "dict"]

\* `not v` for a response: None, {} and [] are false
NotTruthy(v) == v = NoneObject \/ v = EmptyDict \/ v = List(<<>>)

\* s[::-1]
Reversed(s) == [k \in 1..Len(s) |-> s[Len(s) + 1 - k]]

----------------------------------------------------------------------------
(* Input domains *)

CRSs == {None, "", "epsg:4326", "epsg:27700"}

\* googlemaps accepts a key only if it has the form of an API key
AcceptedKeys == {"AIza-key"}

ApiKeys == {None, "", "AIza-key", "my-key"}

\* the values of a per-call crs argument
CrsArgs == {None, "", "epsg:27700"}

\* (x, y) = (lng, lat) coordinates of the input geometries
PointA == <<10, 20>>

PointB == <<30, 40>>

Points == {PointA, PointB}

\* a third vertex for the polygons
PointC == <<50, 60>>

\* polygon.exterior.coords of the polygon with the given boundary vertices:
\* shapely closes the ring, the first vertex comes again at the end
exterior_coords(shell) == shell \o <<shell[1]>>

\* the exterior rings of the isochrone polygons (triangles)
RingAB == exterior_coords(<<PointA, PointB, PointC>>)

RingBA == exterior_coords(<<PointB, PointA, PointC>>)

\* sequences over S of length lo..hi
SeqsOf(S, lo, hi) == UNION {[1..n -> S] : n \in lo..hi}

\* a directions response: routes of legs of steps, each step with its encoded path
Step(points) == [polyline |-> [points |-> points]]

Leg(steps) == [steps |-> steps]

Route(legs) == [legs |-> legs]

\* one route, one leg, one step of two vertices
Direct == List(<<Route(<<Leg(<<Step(<< <<20, 10>>, <<5, 5>> >>)>>)>>)>>)

\* one route whose only leg has no step
NoSteps == List(<<Route(<<Leg(<<>>)>>)>>)

Answer(response) == [raised |-> NoError, response |-> response]

\* what the directions service may do with one request: answer, or fail
Answers ==
    {Answer(NoneObject), Answer(EmptyDict), Answer(List(<<>>)), Answer(Direct), Answer(NoSteps),
     [raised |-> Error("ApiError", "OVER_QUERY_LIMIT"), response |-> NoneObject]}

\* the directions service: what it does with each origin [lat, lng]
\* (every behaviour for the origins A and B; no route is found from C)
Services ==
    {[o \in {Reversed(p) : p \in Points \cup {PointC}} |->
        IF o = Reversed(PointC) THEN Answer(List(<<>>)) ELSE s[o]] :
        s \in [{Reversed(p) : p \in Points} -> Answers]}

\* the service that finds no route from any origin
NoRouteService == [o \in {Reversed(p) : p \in Points \cup {PointC}} |-> Answer(List(<<>>))]

AllColumns == {"geometry", "school", "CENTER_LON", "CENTER_LAT"}

\* the columns of a table and the name of its active geometry column
Schemas ==
    {[columns |-> AllColumns, geometry |-> "geometry"],
     [columns |-> (AllColumns \ {"geometry"}) \cup {"geom"}, geometry |-> "geom"],
     [columns |-> AllColumns \ {"geometry"}, geometry |-> None],
     [columns |-> AllColumns \ {"school"}, geometry |-> "geometry"],
     [columns |-> AllColumns \ {"CENTER_LON"}, geometry |-> "geometry"],
     [columns |-> AllColumns \ {"CENTER_LAT"}, geometry |-> "geometry"]}

Row(ring, school) ==
    [geom_type |-> "Polygon", ring |-> ring, school |-> school, CENTER_LON |-> -1, CENTER_LAT |-> 515]

\* a row whose geometry is a MultiPolygon, which has no exterior
MultiRow(school) == [Row(<<>>, school) EXCEPT !.geom_type = "MultiPolygon"]

Rows == {Row(RingAB, "Abbey Lane"), Row(RingBA, "Birley"), Row(RingBA, "Abbey Lane")}

Table(schema, rows) == [columns |-> schema.columns, geometry |-> schema.geometry, rows |-> rows]

\* encoded paths of no, one and two points
Encodings == {<<>>, << <<20, 10>> >>, << <<40, 30>>, <<1, -1>> >>}

\* the routes of up to MaxLegs legs, each of up to MaxSteps steps
RoutesOfLegs ==
    {Route(legs) :
        legs \in SeqsOf({Leg(steps) : steps \in SeqsOf({Step(e) : e \in Encodings}, 0, MaxSteps)},
                        0, MaxLegs)}

\* the values _get_polyline_from_route is applied to: None, {}, [] and the
\* responses of one route, alone or followed by an alternative route
Responses ==
    {NoneObject, EmptyDict, List(<<>>)}
    \cup {List(<<r>> \o alternatives) : r \in RoutesOfLegs, alternatives \in {<<>>, Direct.items}}

\* [lat, lng] pairs of a decoded route
LatLngs == {<<20, 10>>, <<40, 30>>}

\* the values of the local variable coords: lists of routes, a route a list of
\* [lat, lng] pairs
RouteSets == SeqsOf(SeqsOf(LatLngs, 0, MaxVertices), 0, MaxRoutes)

\* the local variables of generate_from_kml when it reaches the
\* MultiLineString: every value of coords, the other arguments at their defaults
AssembleInputs ==
    {[coords |-> coords, routes_output |-> "routes.gpkg", driver |-> "GPKG", crs |-> None,
      plot_routes |-> plot, mode |-> "walking", map_output |-> "routes.html"] :
        coords \in RouteSets, plot \in BOOLEAN}

\* the arguments of _plot_routes: every value of routes, two output paths
PlotInputs ==
    {[routes |-> routes, mode |-> "walking", output |-> output] :
        routes \in RouteSets, output \in {"routes.html", "map.html"}}

\* the values of coords of a row: no route, one route, two routes
RowRouteSets ==
    {<<>>,
     << << <<20, 10>>, <<40, 30>> >> >>,
     << << <<40, 30>>, <<20, 10>> >>, << <<20, 10>>, <<40, 30>>, <<20, 10>> >> >>}

\* the local variables of generate_from_isochrones when its loop starts,
\* with the label and the value of coords of every row: up to MaxPlotRows
\* rows of two labels, the other arguments at their defaults
RowsInputs ==
    {[rows |-> rows, routes_output |-> "out", driver |-> "GPKG", crs |-> None,
      plot_routes |-> plot, mode |-> "walking", map_output |-> "routes.html"] :
        rows \in SeqsOf({[school |-> school, coords |-> coords] :
                            school \in {"Abbey Lane", "Birley"}, coords \in RowRouteSets},
                        0, MaxPlotRows),
        plot \in BOOLEAN}

\* the values of a driver argument: the three of the match statement, the
\* spelling of the docstring, a driver fiona has and the function has not
Drivers == {"ESRI Shapefile", "GPKG", "GeoJSON", "GeoJson", "KML"}

\* the values of routes_output: the directory that exists, one that does not,
\* a file name, and none
OutputDirs == {"out", "missing", "routes.shp", None}

\* the paths with a '.' in them
Dotted == {"routes.shp"}

\* the arguments of generate_from_isochrones that a call leaves at their
\* defaults, with an existing output directory; dirs are the directories that exist
IsochronesDefaults(dataframe) ==
    [dataframe |-> dataframe, school_coords_column |-> <<"CENTER_LON", "CENTER_LAT">>,
     mode |-> "walking", geometry_column |-> None, schools_column |-> "school",
     departure_time |-> None, arrival_time |-> None, driver |-> "ESRI Shapefile", crs |-> None,
     routes_output |-> "out", map_output |-> "routes.html", plot_routes |-> FALSE,
     dirs |-> {"out"}]

\* calls of generate_from_isochrones: every table of up to MaxRows rows with
\* every behaviour of the service; every crs argument; every table schema
\* with every geometry_column argument; every driver and output directory;
\* every table of up to MaxMixedRows rows, polygons and multipolygons
IsochronesCalls ==
    {[a |-> [IsochronesDefaults(Table(CHOOSE t \in Schemas : t.columns = AllColumns, rows))
                EXCEPT !.plot_routes = plot],
      service |-> service] :
        rows \in SeqsOf(Rows, 0, MaxRows), service \in Services, plot \in BOOLEAN}
    \cup
    {[a |-> [IsochronesDefaults(Table(schema, rows)) EXCEPT !.crs = crs, !.geometry_column = column],
      service |-> NoRouteService] :
        schema \in Schemas, rows \in SeqsOf({Row(RingAB, "Abbey Lane")}, 0, 1),
        crs \in CrsArgs, column \in {None, "geometry", "geom"}}
    \cup
    {[a |-> [IsochronesDefaults(Table(CHOOSE t \in Schemas : t.columns = AllColumns, rows))
                EXCEPT !.driver = driver, !.routes_output = routes_output],
      service |-> NoRouteService] :
        rows \in SeqsOf({Row(RingAB, "Abbey Lane"), Row(RingBA, "Birley")}, 0, MaxRows),
        driver \in Drivers, routes_output \in OutputDirs}
    \cup
    {[a |-> [IsochronesDefaults(Table(CHOOSE t \in Schemas : t.columns = AllColumns, rows))
                EXCEPT !.plot_routes = plot],
      service |-> NoRouteService] :
        rows \in SeqsOf({Row(RingAB, "Abbey Lane"), MultiRow("Crookes")}, 0, MaxMixedRows),
        plot \in BOOLEAN}

\* the arguments of generate_from_kml that a call leaves at their defaults;
\* kml are the points of the file origins_fname
KmlDefaults(kml) ==
    [routes_output |-> "routes.gpkg", origins_fname |-> "origins.kml", destination |-> "School Lane",
     mode |-> "walking", departure_time |-> None, arrival_time |-> None,
     map_output |-> "routes.html", crs |-> None, plot_routes |-> FALSE, driver |-> "GPKG",
     kml |-> kml]

\* the values of a departure_time or arrival_time argument
Times == {None, "2026-01-05 08:00", "2026-01-05 09:00"}

\* calls of generate_from_kml: every file of up to MaxKmlPoints points with
\* every behaviour of the service; every crs and driver argument; every
\* mode, departure_time and arrival_time argument
KmlCalls ==
    {[a |-> [KmlDefaults(kml) EXCEPT !.plot_routes = plot], service |-> service] :
        kml \in SeqsOf(Points, 0, MaxKmlPoints), service \in Services, plot \in BOOLEAN}
    \cup
    {[a |-> [KmlDefaults(<<PointA, PointB>>) EXCEPT !.crs = crs, !.driver = driver, !.origins_fname = fname],
      service |-> NoRouteService] :
        crs \in CrsArgs, driver \in {None, "GPKG", "GeoJSON"}, fname \in {None, "origins.kml"}}
    \cup
    {[a |-> [KmlDefaults(<<PointA, PointB>>) EXCEPT !.mode = mode, !.departure_time = departure_time,
                                                   !.arrival_time = arrival_time],
      service |-> NoRouteService] :
        mode \in {"walking", "driving"}, departure_time \in Times, arrival_time \in Times}

----------------------------------------------------------------------------
(* config.py *)

\* Config.__new__: the attributes of the singleton when the module is imported
Config == [crs |-> "epsg:4326", client |-> NoneObject]

\* Config.set_crs that keeps the old value when given None or ''
Config_set_crs_if_given(self, crs) == IF Falsy(crs) THEN self ELSE SetAttr(self, "crs", crs)

\* Config.set_crs
Config_set_crs(self, crs) == SetAttr(self, "crs", crs)

\* Config.get_crs
Config_get_crs(self) == self.crs

\* Config.set_client
Config_set_client(self, client) == SetAttr(self, "client", client)

\* Config.get_client
Config_get_client(self) == self.client

\* gm.Client(key=api_key): the n-th client object of the process, or the
\* constructor's error
gm_Client(key, n) ==
    IF key \in AcceptedKeys
    THEN [raised |-> NoError, client |-> [serial |-> n, key |-> key]]
    ELSE [raised |-> Error("ValueError", "Invalid API key provided."), client |-> NoneObject]

\* get_client() without its check
get_client_unchecked(cfg) == [raised |-> NoError, value |-> Config_get_client(cfg)]

\* the outcome of get_client() on a Config: the exception and the value
get_client(cfg) ==
    LET client == Config_get_client(cfg)
    IN  IF client = NoneObject
        THEN [raised |-> Error("RuntimeError", "Google Maps client not initialized. Call start_client() first."),
              value |-> NoneObject]
        ELSE [raised |-> NoError, value |-> client]

\* set_crs(crs): the Config left
set_crs(cfg, crs) == Config_set_crs(cfg, crs)

\* the outcome of get_crs() on a Config
get_crs(cfg) == Config_get_crs(cfg)

\* start_client that stores the client and not the crs
start_client_keeps_crs(cfg, api_key, crs, n) ==
    IF Falsy(api_key)
    THEN [raised |-> Error("ValueError", "API key is required"), config |-> cfg, made |-> 0]
    ELSE LET c == gm_Client(api_key, n)
         IN  IF c.raised # NoError
             THEN [raised |-> c.raised, config |-> cfg, made |-> 0]
             ELSE [raised |-> NoError, config |-> Config_set_client(cfg, c.client), made |-> 1]

\* start_client that stores the crs before it constructs the client
start_client_crs_first(cfg, api_key, crs, n) ==
    IF Falsy(api_key)
    THEN [raised |-> Error("ValueError", "API key is required"), config |-> cfg, made |-> 0]
    ELSE LET c == gm_Client(api_key, n)
         IN  IF c.raised # NoError
             THEN [raised |-> c.raised, config |-> Config_set_crs(cfg, crs), made |-> 0]
             ELSE [raised |-> NoError,
                   config |-> Config_set_crs(Config_set_client(cfg, c.client), crs),
                   made |-> 1]

\* the outcome of start_client(api_key, crs): the exception and the Config left
start_client(cfg, api_key, crs, n) ==
    IF Falsy(api_key)
    THEN [raised |-> Error("ValueError", "API key is required"), config |-> cfg, made |-> 0]
    ELSE LET c == gm_Client(api_key, n)
         IN  IF c.raised # NoError
             THEN [raised |-> c.raised, config |-> cfg, made |-> 0]
             ELSE [raised |-> NoError,
                   config |-> Config_set_crs(Config_set_client(cfg, c.client), crs),
                   made |-> 1]

\* stop_client that puts the whole Config back to its initial attributes
stop_client_resets(cfg) == [raised |-> NoError, config |-> Config]

\* the outcome of stop_client(): the exception and the Config left
stop_client(cfg) ==
    IF ~HasAttr(cfg, "client")
    THEN [raised |-> Error("AttributeError", "client"), config |-> cfg]
    ELSE [raised |-> NoError, config |-> Config_set_client(DelAttr(cfg, "client"), NoneObject)]

----------------------------------------------------------------------------
(* _utils/_route_utils.py *)

\* the for loop of _get_polyline_from_route over steps.  The module binds the
\* names datetime, read_kml, fm and get_client and never the name gm, so the
\* first iteration raises NameError where it evaluates gm.convert; with no
\* step the loop body is not entered and steps_polyline is returned as it is
steps_loop(steps, steps_polyline) ==
    IF steps = <<>>
    THEN [raised |-> NoError, value |-> steps_polyline]
    ELSE [raised |-> Error("NameError", "name 'gm' is not defined"), value |-> <<>>]

\* _get_polyline_from_route(route): the exception, or the list of [lat, lng]
_get_polyline_from_route(route) ==
    IF route = NoneObject
    THEN [raised |-> Error("ValueError", "Route is None"), value |-> <<>>]
    ELSE IF NotTruthy(route)
    THEN [raised |-> Error("ValueError", "Route is empty"), value |-> <<>>]
    ELSE IF route.items[1].legs = <<>>
    THEN [raised |-> Error("IndexError", "list index out of range"), value |-> <<>>]
    ELSE steps_loop(route.items[1].legs[1].steps, <<>>)

RECURSIVE directions_loop_skipping(_, _, _, _)
\* the comprehension going on to the next origin when a request raises
directions_loop_skipping(origins, request, service, done) ==
    IF origins = <<>>
    THEN [raised |-> NoError, events |-> done.events, routes |-> done.routes]
    ELSE LET origin == Head(origins)
             answer == service[origin]
             event == [ev |-> "directions", origin |-> origin, request |-> request,
                       raised |-> answer.raised, response |-> answer.response]
         IN  directions_loop_skipping(Tail(origins), request, service,
                                      [events |-> Append(done.events, event),
                                       routes |-> IF answer.raised # NoError THEN done.routes
                                                  ELSE Append(done.routes, answer.response)])

RECURSIVE directions_loop(_, _, _, _)
\* [client.directions(origin=origin, ...) for origin in origins]: one request
\* per origin, in order; the first request that raises ends the loop.  service
\* is what the directions service does with each origin; request holds the
\* keyword arguments other than origin
directions_loop(origins, request, service, done) ==
    IF origins = <<>>
    THEN [raised |-> NoError, events |-> done.events, routes |-> done.routes]
    ELSE LET origin == Head(origins)
             answer == service[origin]
             event == [ev |-> "directions", origin |-> origin, request |-> request,
                       raised |-> answer.raised, response |-> answer.response]
         IN  IF answer.raised # NoError
             THEN [raised |-> answer.raised, events |-> Append(done.events, event),
                   routes |-> done.routes]
             ELSE directions_loop(Tail(origins), request, service,
                                  [events |-> Append(done.events, event),
                                   routes |-> Append(done.routes, answer.response)])

RECURSIVE polylines_loop_unfiltered(_, _)
\* the comprehension without its `if route != []`
polylines_loop_unfiltered(routes, done) ==
    IF routes = <<>>
    THEN [raised |-> NoError, value |-> done]
    ELSE LET r == _get_polyline_from_route(Head(routes))
         IN  IF r.raised # NoError
             THEN [raised |-> r.raised, value |-> <<>>]
             ELSE polylines_loop_unfiltered(Tail(routes), Append(done, r.value))

RECURSIVE polylines_loop(_, _)
\* [_get_polyline_from_route(route) for route in routes if route != []]
polylines_loop(routes, done) ==
    IF routes = <<>>
    THEN [raised |-> NoError, value |-> done]
    ELSE IF Head(routes) = List(<<>>)
    THEN polylines_loop(Tail(routes), done)
    ELSE LET r == _get_polyline_from_route(Head(routes))
         IN  IF r.raised # NoError
             THEN [raised |-> r.raised, value |-> <<>>]
             ELSE polylines_loop(Tail(routes), Append(done, r.value))

\* _get_routes_from_kml, given the points of the KML file (kml, as (x, y) pairs)
_get_routes_from_kml(cfg, kml, service, fname, destination, mode, region, departure_time, arrival_time) ==
    LET c == get_client(cfg)
    IN  IF c.raised # NoError
        THEN [raised |-> c.raised, events |-> <<>>, value |-> <<>>]
        ELSE IF Falsy(fname)
        THEN [raised |-> Error("ValueError", "KML file name is required"), events |-> <<>>, value |-> <<>>]
        ELSE LET origins == [k \in 1..Len(kml) |-> <<kml[k][2], kml[k][1]>>]
                 request == [client |-> c.value, destination |-> destination, mode |-> mode,
                             region |-> region, alternatives |-> TRUE,
                             departure_time |-> departure_time, arrival_time |-> arrival_time]
                 got == directions_loop(origins, request, service, [events |-> <<>>, routes |-> <<>>])
             IN  IF got.raised # NoError
                 THEN [raised |-> got.raised, events |-> got.events, value |-> <<>>]
                 ELSE LET routes_polyline == polylines_loop(got.routes, <<>>)
                      IN  [raised |-> routes_polyline.raised, events |-> got.events,
                           value |-> routes_polyline.value]

\* _plot_routes with one marker only, at the start of the first route
_plot_routes_one_marker(routes, mode, output) ==
    IF routes = <<>> \/ routes[1] = <<>>
    THEN [raised |-> Error("IndexError", "list index out of range"), events |-> <<>>]
    ELSE IF \E k \in 1..Len(routes) : routes[k] = <<>>
    THEN [raised |-> Error("IndexError", "list index out of range"), events |-> <<>>]
    ELSE [raised |-> NoError,
          events |-> << [ev |-> "map", output |-> output,
                         location |-> <<routes[1][1][1], routes[1][1][2]>>,
                         markers |-> << [at |-> <<routes[1][1][1], routes[1][1][2]>>, popup |-> "Start"] >>,
                         lines |-> routes] >>]

\* _plot_routes(routes, mode, output): the exception, or the map saved
_plot_routes(routes, mode, output) ==
    IF routes = <<>> \/ routes[1] = <<>>
    THEN [raised |-> Error("IndexError", "list index out of range"), events |-> <<>>]
    ELSE IF \E k \in 1..Len(routes) : routes[k] = <<>>
    THEN [raised |-> Error("IndexError", "list index out of range"), events |-> <<>>]
    ELSE [raised |-> NoError,
          events |-> << [ev |-> "map", output |-> output,
                         location |-> <<routes[1][1][1], routes[1][1][2]>>,
                         markers |-> [k \in 1..Len(routes) |->
                                        [at |-> <<routes[k][1][1], routes[k][1][2]>>, popup |-> "Start"]],
                         lines |-> routes] >>]

----------------------------------------------------------------------------
(* routing.py *)

\* the comprehension without its [::-1]
not_transposed(coords) == coords

\* [[L[::-1] for L in sub] for sub in coords]
transposed(coords) ==
    [k \in 1..Len(coords) |-> [j \in 1..Len(coords[k]) |-> Reversed(coords[k][j])]]

\* shapely's MultiLineString(lines): no line gives the empty geometry, and a
\* line needs at least two coordinate pairs
MultiLineString(lines) ==
    IF \E k \in 1..Len(lines) : Len(lines[k]) < 2
    THEN [raised |-> Error("ValueError", "LineStrings must have at least 2 coordinate tuples"),
          geoms |-> <<>>]
    ELSE [raised |-> NoError, geoms |-> lines]

\* the records numbered from 1
records_of_from_one(geoms) ==
    [k \in 1..Len(geoms) |->
        [geometry |-> [type |-> "LineString", coordinates |-> geoms[k]],
         properties |-> [id |-> k]]]

\* [{'geometry': mapping(g), 'properties': {'id': i}} for i, g in enumerate(list(geometry.geoms))]
records_of(geoms) ==
    [k \in 1..Len(geoms) |->
        [geometry |-> [type |-> "LineString", coordinates |-> geoms[k]],
         properties |-> [id |-> k - 1]]]

\* with fn.open(path, 'w', driver=driver, schema=schema, crs=crs) as c: c.writerecords(records)
written(path, driver, crs, records) ==
    [ev |-> "write", path |-> path, mode |-> "w", driver |-> driver,
     schema |-> [geometry |-> "LineString", properties |-> [id |-> "int"]],
     crs |-> crs, records |-> records]

\* the local variables coords and geometry of a batch, for inspection
assembled(coords, geoms) == [ev |-> "geometry", coords |-> coords, geoms |-> geoms]

\* save_routes with the Config's crs taking precedence over the argument
save_routes_config_first(coords, path, driver, crs, glob_crs, plot_routes, mode, map_output) ==
    LET geometry == MultiLineString(transposed(coords))
    IN  IF geometry.raised # NoError
        THEN [raised |-> geometry.raised, events |-> <<>>]
        ELSE IF path.raised # NoError
        THEN [raised |-> path.raised, events |-> <<assembled(coords, geometry.geoms)>>]
        ELSE LET file == written(path.value, driver, IF ~Falsy(glob_crs) THEN glob_crs ELSE crs,
                                 records_of(geometry.geoms))
                 plot == IF plot_routes THEN _plot_routes(coords, mode, map_output)
                         ELSE [raised |-> NoError, events |-> <<>>]
             IN  [raised |-> plot.raised,
                  events |-> <<assembled(coords, geometry.geoms), file>> \o plot.events]

\* save_routes with the file opened before the geometry is assembled
save_routes_opens_first(coords, path, driver, crs, glob_crs, plot_routes, mode, map_output) ==
    LET geometry == MultiLineString(transposed(coords))
    IN  IF path.raised # NoError
        THEN [raised |-> path.raised, events |-> <<>>]
        ELSE IF geometry.raised # NoError
        THEN [raised |-> geometry.raised,
              events |-> <<written(path.value, driver, IF ~Falsy(crs) THEN crs ELSE glob_crs, <<>>)>>]
        ELSE LET file == written(path.value, driver, IF ~Falsy(crs) THEN crs ELSE glob_crs,
                                 records_of(geometry.geoms))
                 plot == IF plot_routes THEN _plot_routes(coords, mode, map_output)
                         ELSE [raised |-> NoError, events |-> <<>>]
             IN  [raised |-> plot.raised,
                  events |-> <<assembled(coords, geometry.geoms), file>> \o plot.events]

\* the part of generate_from_kml and of a row of generate_from_isochrones from
\* the MultiLineString on: geometry, vector file, map.  path is the outcome of
\* forming the file path
save_routes(coords, path, driver, crs, glob_crs, plot_routes, mode, map_output) ==
    LET geometry == MultiLineString(transposed(coords))
    IN  IF geometry.raised # NoError
        THEN [raised |-> geometry.raised, events |-> <<>>]
        ELSE IF path.raised # NoError
        THEN [raised |-> path.raised, events |-> <<assembled(coords, geometry.geoms)>>]
        ELSE LET file == written(path.value, driver, IF ~Falsy(crs) THEN crs ELSE glob_crs,
                                 records_of(geometry.geoms))
                 plot == IF plot_routes THEN _plot_routes(coords, mode, map_output)
                         ELSE [raised |-> NoError, events |-> <<>>]
             IN  [raised |-> plot.raised,
                  events |-> <<assembled(coords, geometry.geoms), file>> \o plot.events]

\* generate_from_kml(**a), the KML file holding the points kml
generate_from_kml(cfg, a, kml, service) ==
    LET glob_crs == get_crs(cfg)
    IN  IF a.driver = None
        THEN [raised |-> Error("ValueError", "Driver could not be determined. Try specifying the driver as a kwarg."),
              events |-> <<>>]
        ELSE LET coords == _get_routes_from_kml(cfg, kml, service, a.origins_fname, a.destination,
                                                a.mode, a.departure_time, a.arrival_time, None)
             IN  IF coords.raised # NoError
                 THEN [raised |-> coords.raised, events |-> coords.events]
                 ELSE LET saved == save_routes(coords.value,
                                               [raised |-> NoError, value |-> <<a.routes_output>>],
                                               a.driver, a.crs, glob_crs,
                                               a.plot_routes, a.mode, a.map_output)
                      IN  [raised |-> saved.raised, events |-> coords.events \o saved.events]

\* os.path.join(routes_output, school_name) + ext
output_path(routes_output, school_name, ext) ==
    IF routes_output = None
    THEN [raised |-> Error("TypeError", "expected str, bytes or os.PathLike object, not NoneType"),
          value |-> <<>>]
    ELSE [raised |-> NoError, value |-> <<routes_output, school_name, ext>>]

\* the match statement with a last case that takes any driver for a shapefile
driver_ext_any(driver) ==
    CASE driver = "GPKG" -> ".gpkg"
      [] driver = "GeoJSON" -> ".geojson"
      [] OTHER -> ".shp"

\* the match statement of generate_from_isochrones: the file extension of a driver
driver_ext(driver) ==
    CASE driver = "ESRI Shapefile" -> ".shp"
      [] driver = "GPKG" -> ".gpkg"
      [] driver = "GeoJSON" -> ".geojson"
      [] OTHER -> None

\* the checks with `and` for `or` in the test of the coordinate columns
isochrones_checks_both_missing(cfg, a, dirs) ==
    LET df == a.dataframe
        fail(type, msg) == [raised |-> Error(type, msg), geometry |-> None, ext |-> None]
        client == get_client(cfg)
    IN  IF client.raised # NoError
        THEN [raised |-> client.raised, geometry |-> None, ext |-> None]
        ELSE IF a.geometry_column # None /\ a.geometry_column \notin df.columns
        THEN fail("KeyError", "{geometry_column} column not found in dataframe")
        ELSE IF a.schools_column \notin df.columns
        THEN fail("KeyError", "{schools_column} column not found in dataframe")
        ELSE IF Len(a.school_coords_column) # 2
        THEN fail("ValueError", "{school_coords_column} column is not a valid Series")
        ELSE IF a.school_coords_column[1] \notin df.columns /\ a.school_coords_column[2] \notin df.columns
        THEN fail("ValueError", "{school_coords_column} column is not a valid Series")
        ELSE IF a.routes_output # None /\ a.routes_output \notin dirs
        THEN fail("ValueError",
                  IF a.routes_output \in Dotted
                  THEN "{routes_output} is not a valid directory (hint: routes_output contains a '.' but should be a directory and not a file)"
                  ELSE "{routes_output} is not a valid directory or does not exist")
        ELSE IF driver_ext(a.driver) = None
        THEN fail("ValueError", "{driver} is not a valid driver. Supported drivers are ESRI Shapefile, GPKG and GeoJSON")
        ELSE [raised |-> NoError,
              geometry |-> IF a.geometry_column # None THEN a.geometry_column
                           ELSE IF "geometry" \in df.columns THEN "geometry"
                           ELSE df.geometry,
              ext |-> driver_ext(a.driver)]

\* generate_from_isochrones before its loop: the exception, or the name of the
\* column df.geometry reads (None when the frame has no geometry) and the
\* file extension.  dirs are the directories that exist
isochrones_checks(cfg, a, dirs) ==
    LET df == a.dataframe
        fail(type, msg) == [raised |-> Error(type, msg), geometry |-> None, ext |-> None]
        client == get_client(cfg)
    IN  IF client.raised # NoError
        THEN [raised |-> client.raised, geometry |-> None, ext |-> None]
        ELSE IF a.geometry_column # None /\ a.geometry_column \notin df.columns
        THEN fail("KeyError", "{geometry_column} column not found in dataframe")
        ELSE IF a.schools_column \notin df.columns
        THEN fail("KeyError", "{schools_column} column not found in dataframe")
        ELSE IF Len(a.school_coords_column) # 2
        THEN fail("ValueError", "{school_coords_column} column is not a valid Series")
        ELSE IF a.school_coords_column[1] \notin df.columns \/ a.school_coords_column[2] \notin df.columns
        THEN fail("ValueError", "{school_coords_column} column is not a valid Series")
        ELSE IF a.routes_output # None /\ a.routes_output \notin dirs
        THEN fail("ValueError",
                  IF a.routes_output \in Dotted
                  THEN "{routes_output} is not a valid directory (hint: routes_output contains a '.' but should be a directory and not a file)"
                  ELSE "{routes_output} is not a valid directory or does not exist")
        ELSE IF driver_ext(a.driver) = None
        THEN fail("ValueError", "{driver} is not a valid driver. Supported drivers are ESRI Shapefile, GPKG and GeoJSON")
        ELSE [raised |-> NoError,
              geometry |-> IF a.geometry_column # None THEN a.geometry_column
                           ELSE IF "geometry" \in df.columns THEN "geometry"
                           ELSE df.geometry,
              ext |-> driver_ext(a.driver)]

\* the body of the loop of generate_from_isochrones for one row
isochrones_row(cfg, a, row, checked, service) ==
    IF checked.geometry = None
    THEN [raised |-> Error("AttributeError", "the active geometry column is not set"), events |-> <<>>]
    ELSE IF row.geom_type # "Polygon"
    THEN [raised |-> Error("AttributeError", "'MultiPolygon' object has no attribute 'exterior'"),
          events |-> <<>>]
    ELSE LET origins == [k \in 1..Len(row.ring) |-> Reversed(row.ring[k])]
             destination == <<row[a.school_coords_column[2]], row[a.school_coords_column[1]]>>
             school_name == row[a.schools_column]
             request == [client |-> get_client(cfg).value, destination |-> destination,
                         mode |-> a.mode, region |-> "uk", alternatives |-> TRUE,
                         departure_time |-> a.departure_time, arrival_time |-> a.arrival_time]
             routes == directions_loop(origins, request, service, [events |-> <<>>, routes |-> <<>>])
         IN  IF routes.raised # NoError
             THEN [raised |-> routes.raised, events |-> routes.events]
             ELSE LET coords == polylines_loop(routes.routes, <<>>)
                  IN  IF coords.raised # NoError
                      THEN [raised |-> coords.raised, events |-> routes.events]
                      ELSE LET saved == save_routes(coords.value,
                                                    output_path(a.routes_output, school_name, checked.ext),
                                                    a.driver, a.crs, get_crs(cfg),
                                                    a.plot_routes, a.mode, a.map_output)
                           IN  [raised |-> saved.raised, events |-> routes.events \o saved.events]

\* the events of one iteration, each with the place of its row in the table
in_row(events, i) == [k \in 1..Len(events) |-> SetAttr(events[k], "row", i)]

RECURSIVE isochrones_loop_resilient(_, _, _, _, _, _)
\* the loop going on with the next row when a row raises, and raising at the end
isochrones_loop_resilient(cfg, a, rows, checked, service, events) ==
    IF rows = <<>>
    THEN [raised |-> NoError, events |-> events]
    ELSE LET i == Len(a.dataframe.rows) - Len(rows) + 1
             r == isochrones_row(cfg, a, Head(rows), checked, service)
             rest == isochrones_loop_resilient(cfg, a, Tail(rows), checked, service,
                                               events \o in_row(r.events, i))
         IN  IF r.raised # NoError
             THEN [raised |-> r.raised, events |-> rest.events]
             ELSE rest

RECURSIVE isochrones_loop(_, _, _, _, _, _)
\* for i, row in df.iterrows(): the first row that raises ends the loop
isochrones_loop(cfg, a, rows, checked, service, events) ==
    IF rows = <<>>
    THEN [raised |-> NoError, events |-> events]
    ELSE LET i == Len(a.dataframe.rows) - Len(rows) + 1
             r == isochrones_row(cfg, a, Head(rows), checked, service)
         IN  IF r.raised # NoError
             THEN [raised |-> r.raised, events |-> events \o in_row(r.events, i)]
             ELSE isochrones_loop(cfg, a, Tail(rows), checked, service,
                                  events \o in_row(r.events, i))

RECURSIVE save_rows_first_map(_, _, _, _)
\* the rows with a map rendered for the first row only
save_rows_first_map(a, rows, glob_crs, events) ==
    IF rows = <<>>
    THEN [raised |-> NoError, events |-> events]
    ELSE LET i == Len(a.rows) - Len(rows) + 1
             r == save_routes(Head(rows).coords,
                              output_path(a.routes_output, Head(rows).school, driver_ext(a.driver)),
                              a.driver, a.crs, glob_crs, a.plot_routes /\ i = 1, a.mode, a.map_output)
         IN  IF r.raised # NoError
             THEN [raised |-> r.raised, events |-> events \o in_row(r.events, i)]
             ELSE save_rows_first_map(a, Tail(rows), glob_crs, events \o in_row(r.events, i))

RECURSIVE save_rows(_, _, _, _)
\* the loop of generate_from_isochrones from the MultiLineString of each row
\* on, given the label and the value of coords of every row
save_rows(a, rows, glob_crs, events) ==
    IF rows = <<>>
    THEN [raised |-> NoError, events |-> events]
    ELSE LET i == Len(a.rows) - Len(rows) + 1
             r == save_routes(Head(rows).coords,
                              output_path(a.routes_output, Head(rows).school, driver_ext(a.driver)),
                              a.driver, a.crs, glob_crs, a.plot_routes, a.mode, a.map_output)
         IN  IF r.raised # NoError
             THEN [raised |-> r.raised, events |-> events \o in_row(r.events, i)]
             ELSE save_rows(a, Tail(rows), glob_crs, events \o in_row(r.events, i))

\* generate_from_isochrones(**a)
generate_from_isochrones(cfg, a, service, dirs) ==
    LET checked == isochrones_checks(cfg, a, dirs)
    IN  IF checked.raised # NoError
        THEN [raised |-> checked.raised, events |-> <<>>]
        ELSE isochrones_loop(cfg, a, a.dataframe.rows, checked, service, <<>>)

----------------------------------------------------------------------------
(* crs/crs.py *)

\* change_crs(crs): the Config left
change_crs(cfg, crs) == set_crs(cfg, crs)

----------------------------------------------------------------------------
(* _utils/_ext_checks.py.  A path or an extension is the sequence of its *)
(* characters. *)

\* the letters of the paths, upper case before lower case
CasePairs ==
    {<<"S", "s">>, <<"H", "h">>, <<"P", "p">>, <<"G", "g">>, <<"K", "k">>, <<"E", "e">>,
     <<"O", "o">>, <<"J", "j">>, <<"N", "n">>, <<"T", "t">>, <<"X", "x">>, <<"D", "d">>}

\* the directories and file names that extensions are put after
Stems == {<<"x">>, <<>>, <<"d", ".", "d", "/">>, <<"d", ".", "d", "/", "x">>, <<".", "x">>}

\* what is put after them
Suffixes ==
    {<<>>, <<".">>, <<"s", "h", "p">>,
     <<".", "s", "h", "p">>, <<".", "S", "H", "P">>, <<".", "S", "h", "p">>,
     <<".", "g", "p", "k", "g">>, <<".", "G", "P", "K", "G">>,
     <<".", "g", "e", "o", "j", "s", "o", "n">>, <<".", "G", "e", "o", "J", "S", "O", "N">>,
     <<".", "t", "x", "t">>, <<".", "T", "X", "T">>,
     <<".", "s", "h", "p", ".", "t", "x", "t">>, <<".", "t", "x", "t", ".", "s", "h", "p">>}

FilePaths == {stem \o suffix : stem \in Stems, suffix \in Suffixes}

\* the values of a valid_extensions argument
ExtensionLists ==
    {<< <<".", "g", "e", "o", "j", "s", "o", "n">>, <<".", "g", "p", "k", "g">>, <<".", "s", "h", "p">> >>,
     << <<"S", "H", "P">>, <<".", "T", "x", "t">> >>,
     << <<>>, <<"g", "p", "k", "g">> >>,
     <<>>}

\* the calls of the two checks
ExtCalls ==
    {[fn |-> "choose_driver", file_path |-> path, message |-> message] :
        path \in FilePaths, message \in {None, "custom"}}
    \cup
    {[fn |-> "check_file_extension", file_path |-> path, valid_extensions |-> valid, message |-> message] :
        path \in FilePaths, valid \in ExtensionLists, message \in {None, "custom"}}

\* a coordinate as the caller gives it: a number, or a string of characters
Num(n) == [num |-> n]

Str(chars) == [str |-> chars]

\* the values of a lat or lng argument and of a coordinate column
CoordinateValues ==
    {Num(10), Num(20), Str(<<"3", "0">>), Str(<<"-", "4">>), Str(<<"a", "b", "c">>), Str(<<>>)}

\* the rows of a table of points
PointRows ==
    {[URN |-> "S1", Longitude |-> Num(10), Latitude |-> Num(20)],
     [URN |-> "S2", Longitude |-> Str(<<"3", "0">>), Latitude |-> Str(<<"-", "4">>)],
     [URN |-> "S3", Longitude |-> Str(<<"a", "b", "c">>), Latitude |-> Num(20)]}

\* calls of the two point writers
PointCalls ==
    {[fn |-> "create_school_shapefile", lat |-> lat, lng |-> lng, output |-> "school.shp"] :
        lat \in CoordinateValues, lng \in CoordinateValues}
    \cup
    {[fn |-> "create_multi_points_shapefile", dataframe |-> rows, id_column |-> "URN",
      output |-> "schools.shp", longitude_column |-> lon, latitude_column |-> "Latitude"] :
        rows \in SeqsOf(PointRows, 0, MaxPoints), lon \in {"Longitude", "Easting"}}

\* the names of the entries of a source directory: two vector files, a text
\* file, the attribute table beside a shapefile, and a subdirectory
EntryNames ==
    {<<"a", ".", "s", "h", "p">>, <<"b", ".", "G", "P", "K", "G">>, <<"c", ".", "t", "x", "t">>,
     <<"a", ".", "d", "b", "f">>, <<"s", "u", "b">>}

SubDirs == {<<"s", "u", "b">>}

\* os.listdir returns the entries in any order
Listings ==
    UNION {{l \in [1..n -> EntryNames] : \A j, k \in 1..n : l[j] = l[k] => j = k} : n \in 0..MaxEntries}

SourceDir == <<"i", "n">>

DestinationDir == <<"o", "u", "t">>

\* the disk with SourceDir holding the entries of a listing, and an empty
\* DestinationDir
Directory(listing) ==
    LET names == {listing[k] : k \in 1..Len(listing)}
        subs == {SourceDir \o <<"/">> \o name : name \in names \cap SubDirs}
    IN  [files |-> {SourceDir \o <<"/">> \o name : name \in names \ SubDirs},
         dirs |-> {SourceDir, DestinationDir} \cup subs,
         listing |-> [d \in {SourceDir, DestinationDir} \cup subs |-> IF d = SourceDir THEN listing ELSE <<>>]]

\* the paths of single files
SourceFiles ==
    {<<"x", ".", "s", "h", "p">>, <<"x", ".", "S", "H", "P">>, <<"x", ".", "g", "e", "o", "j", "s", "o", "n">>,
     <<"x", ".", "t", "x", "t">>, <<"x">>}

\* the disk with at most one file, and DestinationDir
OneFile(files) ==
    [files |-> files, dirs |-> {DestinationDir},
     listing |-> [d \in {DestinationDir} |-> <<>>]]

\* the keyword arguments a caller passes to the decorated function
KwargsOf(keys) ==
    {[k \in keys |-> IF k = "driver" THEN driver ELSE skip] :
        driver \in {None, "GPKG", "KML"}, skip \in BOOLEAN}

Kwargs == UNION {KwargsOf(keys) : keys \in SUBSET {"driver", "skip_invalid"}}

\* calls of convert_crs on a directory and on a file, and calls of
\* _convert_crs_file
CrsCalls ==
    {[fn |-> "convert_crs", fs |-> Directory(listing), source |-> SourceDir, destination |-> destination,
      crs |-> "epsg:27700", engine |-> "fiona", skip_invalid |-> skip] :
        listing \in Listings, destination \in {DestinationDir, <<"n", "o">>}, skip \in BOOLEAN}
    \cup
    {[fn |-> "convert_crs", fs |-> OneFile(files), source |-> source,
      destination |-> <<"y", ".", "g", "p", "k", "g">>,
      crs |-> "epsg:27700", engine |-> "fiona", skip_invalid |-> skip] :
        source \in SourceFiles, files \in {{}, SourceFiles}, skip \in BOOLEAN}
    \cup
    {[fn |-> "_convert_crs_file", fs |-> OneFile(files), source |-> source,
      destination |-> <<"y", ".", "g", "p", "k", "g">>,
      crs |-> "epsg:27700", engine |-> "fiona", kwargs |-> kwargs] :
        source \in SourceFiles \cup {DestinationDir}, files \in {{}, SourceFiles}, kwargs \in Kwargs}

\* str.lower() that leaves the string as it is
unchanged(str) == str

\* str.lower()
lower(str) ==
    [k \in 1..Len(str) |->
        IF \E pair \in CasePairs : pair[1] = str[k]
        THEN (CHOOSE pair \in CasePairs : pair[1] = str[k])[2]
        ELSE str[k]]

\* str.rfind(ch), counting from 1: 0 when ch is not in str
rfind(str, ch) ==
    IF \E k \in 1..Len(str) : str[k] = ch
    THEN CHOOSE k \in 1..Len(str) : str[k] = ch /\ \A j \in (k + 1)..Len(str) : str[j] # ch
    ELSE 0

RECURSIVE splitext_from(_, _, _)
\* the loop of os.path.splitext that skips the leading dots of the file name
splitext_from(path, filenameIndex, dotIndex) ==
    IF filenameIndex >= dotIndex
    THEN <<path, <<>> >>
    ELSE IF path[filenameIndex] # "."
    THEN <<SubSeq(path, 1, dotIndex - 1), SubSeq(path, dotIndex, Len(path))>>
    ELSE splitext_from(path, filenameIndex + 1, dotIndex)

\* os.path.splitext(path): <<root, ext>>
splitext(path) ==
    LET sepIndex == rfind(path, "/")
        dotIndex == rfind(path, ".")
    IN  IF dotIndex > sepIndex
        THEN splitext_from(path, sepIndex + 1, dotIndex)
        ELSE <<path, <<>> >>

\* FileExtensionError(ext, message)
FileExtensionError(ext, message) ==
    [type |-> "FileExtensionError",
     ext |-> ext,
     msg |-> IF ~Falsy(message) THEN message
             ELSE IF ext = <<>> THEN "File has no extension, or an extensionless file is not permitted."
             ELSE "Invalid file extension: {ext}"]

\* _format_valid_extensions(valid_extensions)
_format_valid_extensions(valid_extensions) ==
    [k \in 1..Len(valid_extensions) |->
        LET ext == valid_extensions[k]
        IN  IF ext = <<>> THEN <<>>
            ELSE IF ext[1] = "." THEN lower(ext)
            ELSE <<".">> \o lower(ext)]

\* x in list
In(x, list) == \E k \in 1..Len(list) : list[k] = x

\* check_file_extension(file_path, valid_extensions, message)
check_file_extension(file_path, valid_extensions, message) ==
    LET ext == lower(splitext(file_path)[2])
    IN  IF ~In(ext, _format_valid_extensions(valid_extensions))
        THEN [raised |-> FileExtensionError(ext, message), value |-> None]
        ELSE [raised |-> NoError, value |-> "True"]

\* choose_driver(file_path, message)
choose_driver(file_path, message) ==
    LET ext == lower(splitext(file_path)[2])
    IN  CASE ext = <<".", "s", "h", "p">> -> [raised |-> NoError, value |-> "ESRI Shapefile"]
          [] ext = <<".", "g", "p", "k", "g">> -> [raised |-> NoError, value |-> "GPKG"]
          [] ext = <<".", "g", "e", "o", "j", "s", "o", "n">> -> [raised |-> NoError, value |-> "GeoJSON"]
          [] OTHER -> [raised |-> FileExtensionError(ext, "Could not determine driver for file extension"),
                       value |-> None]

----------------------------------------------------------------------------
(* shapefiles/shapefiles.py *)

Digits == <<"0", "1", "2", "3", "4", "5", "6", "7", "8", "9">>

IsDigit(ch) == \E d \in 1..10 : Digits[d] = ch

DigitValue(ch) == (CHOOSE d \in 1..10 : Digits[d] = ch) - 1

RECURSIVE digits_value(_, _)
\* the number written by a string of decimal digits, after the value so far
digits_value(chars, sofar) ==
    IF chars = <<>> THEN sofar
    ELSE digits_value(Tail(chars), 10 * sofar + DigitValue(Head(chars)))

\* float(v) for a number, or for a string of an optional sign and digits
float(v) ==
    IF "num" \in DOMAIN v
    THEN [raised |-> NoError, value |-> v.num]
    ELSE LET signed == v.str # <<>> /\ Head(v.str) \in {"-", "+"}
             body == IF signed THEN Tail(v.str) ELSE v.str
         IN  IF body = <<>> \/ \E k \in 1..Len(body) : ~IsDigit(body[k])
             THEN [raised |-> Error("ValueError", "could not convert string to float"), value |-> 0]
             ELSE [raised |-> NoError,
                   value |-> IF signed /\ Head(v.str) = "-"
                             THEN 0 - digits_value(body, 0)
                             ELSE digits_value(body, 0)]

\* mapping(Point(x, y))
Point(x, y) == [type |-> "Point", coordinates |-> <<x, y>>]

\* what fn.open(output, 'w', 'ESRI Shapefile', schema, crs=glob_crs) has
\* written when it is closed
points_written(output, id_type, crs, records) ==
    [ev |-> "write", path |-> output, mode |-> "w", driver |-> "ESRI Shapefile",
     schema |-> [geometry |-> "Point", properties |-> [id |-> id_type]],
     crs |-> crs, records |-> records]

\* create_school_shapefile(lat, lng, output)
create_school_shapefile(cfg, lat, lng, output) ==
    LET glob_crs == get_crs(cfg)
        x == float(lng)
        y == float(lat)
    IN  IF x.raised # NoError THEN [raised |-> x.raised, events |-> <<>>]
        ELSE IF y.raised # NoError THEN [raised |-> y.raised, events |-> <<>>]
        ELSE [raised |-> NoError,
              events |-> <<points_written(output, "int", glob_crs,
                                          <<[geometry |-> Point(x.value, y.value),
                                             properties |-> [id |-> 1]]>>)>>]

RECURSIVE points_loop(_, _, _, _)
\* [Point(float(row[longitude_column]), float(row[latitude_column]))
\*  for i, row in dataframe.iterrows()]
points_loop(rows, longitude_column, latitude_column, done) ==
    IF rows = <<>>
    THEN [raised |-> NoError, value |-> done]
    ELSE LET row == Head(rows)
         IN  IF longitude_column \notin DOMAIN row
             THEN [raised |-> Error("KeyError", longitude_column), value |-> <<>>]
             ELSE LET x == float(row[longitude_column])
                  IN  IF x.raised # NoError THEN [raised |-> x.raised, value |-> <<>>]
                      ELSE IF latitude_column \notin DOMAIN row
                      THEN [raised |-> Error("KeyError", latitude_column), value |-> <<>>]
                      ELSE LET y == float(row[latitude_column])
                           IN  IF y.raised # NoError THEN [raised |-> y.raised, value |-> <<>>]
                               ELSE points_loop(Tail(rows), longitude_column, latitude_column,
                                                Append(done, Point(x.value, y.value)))

\* [{...} for point, i, row in zip(geometry, dataframe.iterrows())]: an item
\* of the zip is the pair (point, (i, row)), which three names cannot take
point_records(geometry, rows, id_column) ==
    IF geometry = <<>> \/ rows = <<>>
    THEN [raised |-> NoError, value |-> <<>>]
    ELSE [raised |-> Error("ValueError", "not enough values to unpack (expected 3, got 2)"),
          value |-> <<>>]

\* create_multi_points_shapefile(dataframe, id_column, output,
\* longitude_column, latitude_column); dataframe is the list of its rows,
\* a row a mapping from column name to value
create_multi_points_shapefile(cfg, dataframe, id_column, output, longitude_column, latitude_column) ==
    LET glob_crs == get_crs(cfg)
        geometry == points_loop(dataframe, longitude_column, latitude_column, <<>>)
    IN  IF geometry.raised # NoError
        THEN [raised |-> geometry.raised, events |-> <<>>]
        ELSE LET records == point_records(geometry.value, dataframe, id_column)
             IN  [raised |-> records.raised,
                  events |-> <<points_written(output, "str", glob_crs, records.value)>>]

\* the keyword arguments of a call: keyword -> value
NoKwargs == [k \in {} |-> None]

\* kwargs[key] = v
SetKwarg(kwargs, key, v) == [k \in DOMAIN kwargs \cup {key} |-> IF k = key THEN v ELSE kwargs[k]]

\* kwargs.get(key, default)
GetKwarg(kwargs, key, default) == IF key \in DOMAIN kwargs THEN kwargs[key] ELSE default

\* the files and directories on disk: fs.files and fs.dirs are sets of
\* paths, fs.listing[d] is what os.listdir(d) returns
exists(fs, path) == path \in fs.files \cup fs.dirs

isdir(fs, path) == path \in fs.dirs

listdir(fs, path) == fs.listing[path]

\* os.path.join(a, b) for a relative b
join(a, b) == a \o <<"/">> \o b

\* a call of the decorated function, as the function sees it
called(func, filepath, kwargs) == [ev |-> "call", func |-> func, filepath |-> filepath, kwargs |-> kwargs]

\* gdf.to_file(destination, driver=driver, mode='w', engine=engine, crs=crs)
\* of the table read from source
to_file(source, destination, driver, engine, crs) ==
    [ev |-> "to_file", source |-> source, destination |-> destination, mode |-> "w",
     driver |-> driver, engine |-> engine, crs |-> crs]

\* crs.py: the body of _convert_crs_file, under the decorator
_convert_crs_file_body(source, destination, crs, engine, kwargs) ==
    LET driver == GetKwarg(kwargs, "driver", None)
    IN  IF driver = None
        THEN [raised |-> Error("ValueError", "Driver could not be determined. Try specifying the driver as a kwarg."),
              value |-> None, events |-> <<>>]
        ELSE [raised |-> NoError, value |-> None,
              events |-> <<to_file(source, destination, driver, engine, crs)>>]

\* validate_file_extension(valid_extensions): the list the wrapper checks against
validate_file_extension(valid_extensions) ==
    _format_valid_extensions(
        IF valid_extensions = None
        THEN << <<".", "g", "e", "o", "j", "s", "o", "n">>, <<".", "g", "p", "k", "g">>, <<".", "s", "h", "p">> >>
        ELSE valid_extensions)

\* the wrapper with the extension checked before the existence of the path
wrapper_extension_first(valid_extensions, fs, filepath, destination, crs, engine, kwargs) ==
    LET skip_invalid == GetKwarg(kwargs, "skip_invalid", FALSE)
        ext == lower(splitext(filepath)[2])
    IN  IF ~In(ext, valid_extensions)
        THEN IF skip_invalid
             THEN [raised |-> NoError, value |-> None, events |-> <<>>]
             ELSE [raised |-> FileExtensionError(ext, "Invalid file extension: {ext}. Supported extensions: {', '.join(valid_extensions)}"),
                   value |-> None, events |-> <<>>]
        ELSE IF ~exists(fs, filepath)
        THEN [raised |-> FileExtensionError(<<>>, "File or directory does not exist: {filepath}"),
              value |-> None, events |-> <<>>]
        ELSE LET detected == choose_driver(filepath, None)
                 passed == IF "driver" \notin DOMAIN kwargs /\ detected.raised = NoError
                           THEN SetKwarg(kwargs, "driver", detected.value)
                           ELSE kwargs
                 r == _convert_crs_file_body(filepath, destination, crs, engine, passed)
             IN  [raised |-> r.raised, value |-> r.value,
                  events |-> <<called("_convert_crs_file", filepath, passed)>> \o r.events]

\* the wrapper with the detected driver replacing the caller's
wrapper_detected_driver(valid_extensions, fs, filepath, destination, crs, engine, kwargs) ==
    LET skip_invalid == GetKwarg(kwargs, "skip_invalid", FALSE)
        ext == lower(splitext(filepath)[2])
    IN  IF ~exists(fs, filepath)
        THEN [raised |-> FileExtensionError(<<>>, "File or directory does not exist: {filepath}"),
              value |-> None, events |-> <<>>]
        ELSE IF ~In(ext, valid_extensions)
        THEN IF skip_invalid
             THEN [raised |-> NoError, value |-> None, events |-> <<>>]
             ELSE [raised |-> FileExtensionError(ext, "Invalid file extension: {ext}. Supported extensions: {', '.join(valid_extensions)}"),
                   value |-> None, events |-> <<>>]
        ELSE LET detected == choose_driver(filepath, None)
                 passed == IF detected.raised = NoError
                           THEN SetKwarg(kwargs, "driver", detected.value)
                           ELSE kwargs
                 r == _convert_crs_file_body(filepath, destination, crs, engine, passed)
             IN  [raised |-> r.raised, value |-> r.value,
                  events |-> <<called("_convert_crs_file", filepath, passed)>> \o r.events]

\* validate_file_extension.<locals>.wrapper around _convert_crs_file:
\* wrapper(filepath, destination, crs, engine, **kwargs)
wrapper(valid_extensions, fs, filepath, destination, crs, engine, kwargs) ==
    LET skip_invalid == GetKwarg(kwargs, "skip_invalid", FALSE)
        ext == lower(splitext(filepath)[2])
    IN  IF ~exists(fs, filepath)
        THEN [raised |-> FileExtensionError(<<>>, "File or directory does not exist: {filepath}"),
              value |-> None, events |-> <<>>]
        ELSE IF ~In(ext, valid_extensions)
        THEN IF skip_invalid
             THEN [raised |-> NoError, value |-> None, events |-> <<>>]
             ELSE [raised |-> FileExtensionError(ext, "Invalid file extension: {ext}. Supported extensions: {', '.join(valid_extensions)}"),
                   value |-> None, events |-> <<>>]
        ELSE LET detected == choose_driver(filepath, None)
                 passed == IF "driver" \notin DOMAIN kwargs /\ detected.raised = NoError
                           THEN SetKwarg(kwargs, "driver", detected.value)
                           ELSE kwargs
                 r == _convert_crs_file_body(filepath, destination, crs, engine, passed)
             IN  [raised |-> r.raised, value |-> r.value,
                  events |-> <<called("_convert_crs_file", filepath, passed)>> \o r.events]

\* crs.py: _convert_crs_file as its callers see it, @validate_file_extension()
_convert_crs_file(fs, source, destination, crs, engine, kwargs) ==
    wrapper(validate_file_extension(None), fs, source, destination, crs, engine, kwargs)

RECURSIVE convert_loop_skipping(_, _, _, _, _, _, _, _)
\* the loop that goes on to the next entry after an entry has failed
convert_loop_skipping(fs, files, source, destination, crs, engine, kwargs, events) ==
    IF files = <<>>
    THEN [raised |-> NoError, value |-> None, events |-> events]
    ELSE LET r == _convert_crs_file(fs, join(source, Head(files)), join(destination, Head(files)),
                                    crs, engine, kwargs)
         IN  convert_loop_skipping(fs, Tail(files), source, destination, crs, engine, kwargs,
                                   events \o r.events)

RECURSIVE convert_loop(_, _, _, _, _, _, _, _)
\* for file in os.listdir(source): _convert_crs_file(...)
convert_loop(fs, files, source, destination, crs, engine, kwargs, events) ==
    IF files = <<>>
    THEN [raised |-> NoError, value |-> None, events |-> events]
    ELSE LET r == _convert_crs_file(fs, join(source, Head(files)), join(destination, Head(files)),
                                    crs, engine, kwargs)
         IN  IF r.raised # NoError
             THEN [raised |-> r.raised, value |-> None, events |-> events \o r.events]
             ELSE convert_loop(fs, Tail(files), source, destination, crs, engine, kwargs,
                               events \o r.events)

\* crs.py: _convert_crs_directory(source, destination, crs, engine, **kwargs)
_convert_crs_directory(fs, source, destination, crs, engine, kwargs) ==
    IF ~isdir(fs, source)
    THEN [raised |-> FileExtensionError(<<"Source is not a directory">>, None), value |-> None, events |-> <<>>]
    ELSE IF ~isdir(fs, destination)
    THEN [raised |-> FileExtensionError(<<"Destination is not a directory">>, None), value |-> None, events |-> <<>>]
    ELSE convert_loop(fs, listdir(fs, source), source, destination, crs, engine, kwargs, <<>>)

\* crs.py: convert_crs(source, destination, crs, engine, skip_invalid)
convert_crs(fs, source, destination, crs, engine, skip_invalid) ==
    IF ~exists(fs, source)
    THEN [raised |-> FileExtensionError(<<"Source file does not exist">>, None), value |-> None, events |-> <<>>]
    ELSE IF ~isdir(fs, source)
    THEN _convert_crs_file(fs, source, destination, crs, engine, NoKwargs)
    ELSE _convert_crs_directory(fs, source, destination, crs, engine, SetKwarg(NoKwargs, "skip_invalid", skip_invalid))

----------------------------------------------------------------------------
(* The calls *)

Idle == op = "idle"

Returns(name, a, r, v, t) ==
    /\ op' = name
    /\ arg' = a
    /\ raised' = r
    /\ value' = v
    /\ trace' = t

SetCrs ==
    \E crs \in CRSs :
        /\ Idle
        /\ config' = set_crs(config, crs)
        /\ Returns("set_crs", [crs |-> crs], NoError, None, <<>>)
        /\ UNCHANGED nclients

ChangeCrs ==
    \E crs \in CRSs :
        /\ Idle
        /\ config' = change_crs(config, crs)
        /\ Returns("change_crs", [crs |-> crs], NoError, None, <<>>)
        /\ UNCHANGED nclients

GetCrs ==
    /\ Idle
    /\ Returns("get_crs", <<>>, NoError, get_crs(config), <<>>)
    /\ UNCHANGED <<config, nclients>>

GetClient ==
    /\ Idle
    /\ LET r == get_client(config)
       IN  Returns("get_client", <<>>, r.raised, r.value, <<>>)
    /\ UNCHANGED <<config, nclients>>

StartClient ==
    \E api_key \in ApiKeys, crs \in CRSs :
        /\ Idle
        /\ LET r == start_client(config, api_key, crs, nclients + 1)
           IN  /\ nclients + r.made <= MaxClients
               /\ config' = r.config
               /\ nclients' = nclients + r.made
               /\ Returns("start_client", [api_key |-> api_key, crs |-> crs], r.raised, None, <<>>)

StopClient ==
    /\ Idle
    /\ LET r == stop_client(config)
       IN  /\ config' = r.config
           /\ Returns("stop_client", <<>>, r.raised, None, <<>>)
    /\ UNCHANGED nclients

GenerateFromKml ==
    \E c \in KmlCalls :
        /\ Idle
        /\ LET r == generate_from_kml(config, c.a, c.a.kml, c.service)
           IN  Returns("generate_from_kml", c.a, r.raised, None, r.events)
        /\ UNCHANGED <<config, nclients>>

GenerateFromIsochrones ==
    \E c \in IsochronesCalls :
        /\ Idle
        /\ LET r == generate_from_isochrones(config, c.a, c.service, c.a.dirs)
           IN  Returns("generate_from_isochrones", c.a, r.raised, None, r.events)
        /\ UNCHANGED <<config, nclients>>

\* the call has returned (or raised) and its caller goes on
Return ==
    /\ ~Idle
    /\ Returns("idle", <<>>, NoError, None, <<>>)
    /\ UNCHANGED <<config, nclients>>

----------------------------------------------------------------------------

Init ==
    /\ config = Config
    /\ nclients = 0
    /\ op = "idle"
    /\ arg = <<>>
    /\ raised = NoError
    /\ value = None
    /\ trace = <<>>

Next ==
    \/ SetCrs
    \/ ChangeCrs
    \/ GetCrs
    \/ GetClient
    \/ StartClient
    \/ StopClient
    \/ GenerateFromKml
    \/ GenerateFromIsochrones
    \/ Return

Spec == Init /\ [][Next]_vars

\* _get_polyline_from_route applied to one response
InitPolyline ==
    /\ config = Config
    /\ nclients = 0
    /\ op = "idle"
    /\ arg \in {[route |-> r] : r \in Responses}
    /\ raised = NoError
    /\ value = <<>>
    /\ trace = <<>>

GetPolylineFromRoute ==
    /\ Idle
    /\ LET r == _get_polyline_from_route(arg.route)
       IN  Returns("_get_polyline_from_route", arg, r.raised, r.value, <<>>)
    /\ UNCHANGED <<config, nclients>>

NextPolyline == GetPolylineFromRoute

SpecPolyline == InitPolyline /\ [][NextPolyline]_vars

\* the statements of generate_from_kml from the MultiLineString on (the same
\* statements end the loop body of generate_from_isochrones), entered with one
\* value of coords
InitAssemble ==
    /\ config = Config
    /\ nclients = 0
    /\ op = "idle"
    /\ arg \in AssembleInputs
    /\ raised = NoError
    /\ value = None
    /\ trace = <<>>

SaveRoutes ==
    /\ Idle
    /\ LET r == save_routes(arg.coords, [raised |-> NoError, value |-> <<arg.routes_output>>],
                            arg.driver, arg.crs, get_crs(config),
                            arg.plot_routes, arg.mode, arg.map_output)
       IN  Returns("save_routes", arg, r.raised, None, r.events)
    /\ UNCHANGED <<config, nclients>>

NextAssemble == SaveRoutes

SpecAssemble == InitAssemble /\ [][NextAssemble]_vars

\* the loop of generate_from_isochrones on the routes of the rows of one table
InitRows ==
    /\ config = Config
    /\ nclients = 0
    /\ op = "idle"
    /\ arg \in RowsInputs
    /\ raised = NoError
    /\ value = None
    /\ trace = <<>>

SaveRows ==
    /\ Idle
    /\ LET r == save_rows(arg, arg.rows, get_crs(config), <<>>)
       IN  Returns("save_rows", arg, r.raised, None, r.events)
    /\ UNCHANGED <<config, nclients>>

NextRows == SaveRows

SpecRows == InitRows /\ [][NextRows]_vars

\* _plot_routes applied to one value of routes
InitPlot ==
    /\ config = Config
    /\ nclients = 0
    /\ op = "idle"
    /\ arg \in PlotInputs
    /\ raised = NoError
    /\ value = None
    /\ trace = <<>>

PlotRoutes ==
    /\ Idle
    /\ LET r == _plot_routes(arg.routes, arg.mode, arg.output)
       IN  Returns("_plot_routes", arg, r.raised, None, r.events)
    /\ UNCHANGED <<config, nclients>>

NextPlot == PlotRoutes

SpecPlot == InitPlot /\ [][NextPlot]_vars

\* one of the point writers applied to one input, under any crs of the Config
InitPoints ==
    /\ config \in {Config_set_crs(Config, crs) : crs \in CRSs}
    /\ nclients = 0
    /\ op = "idle"
    /\ arg \in PointCalls
    /\ raised = NoError
    /\ value = None
    /\ trace = <<>>

CreateSchoolShapefile ==
    /\ Idle /\ arg.fn = "create_school_shapefile"
    /\ LET r == create_school_shapefile(config, arg.lat, arg.lng, arg.output)
       IN  Returns("create_school_shapefile", arg, r.raised, None, r.events)
    /\ UNCHANGED <<config, nclients>>

CreateMultiPointsShapefile ==
    /\ Idle /\ arg.fn = "create_multi_points_shapefile"
    /\ LET r == create_multi_points_shapefile(config, arg.dataframe, arg.id_column, arg.output,
                                              arg.longitude_column, arg.latitude_column)
       IN  Returns("create_multi_points_shapefile", arg, r.raised, None, r.events)
    /\ UNCHANGED <<config, nclients>>

NextPoints == CreateSchoolShapefile \/ CreateMultiPointsShapefile

SpecPoints == InitPoints /\ [][NextPoints]_vars

\* choose_driver or check_file_extension applied to one path
InitExt ==
    /\ config = Config
    /\ nclients = 0
    /\ op = "idle"
    /\ arg \in ExtCalls
    /\ raised = NoError
    /\ value = None
    /\ trace = <<>>

ChooseDriver ==
    /\ Idle /\ arg.fn = "choose_driver"
    /\ LET r == choose_driver(arg.file_path, arg.message)
       IN  Returns("choose_driver", arg, r.raised, r.value, <<>>)
    /\ UNCHANGED <<config, nclients>>

CheckFileExtension ==
    /\ Idle /\ arg.fn = "check_file_extension"
    /\ LET r == check_file_extension(arg.file_path, arg.valid_extensions, arg.message)
       IN  Returns("check_file_extension", arg, r.raised, r.value, <<>>)
    /\ UNCHANGED <<config, nclients>>

NextExt == ChooseDriver \/ CheckFileExtension

SpecExt == InitExt /\ [][NextExt]_vars

\* convert_crs or _convert_crs_file applied to one disk
InitCrs ==
    /\ config = Config
    /\ nclients = 0
    /\ op = "idle"
    /\ arg \in CrsCalls
    /\ raised = NoError
    /\ value = None
    /\ trace = <<>>

ConvertCrs ==
    /\ Idle /\ arg.fn = "convert_crs"
    /\ LET r == convert_crs(arg.fs, arg.source, arg.destination, arg.crs, arg.engine, arg.skip_invalid)
       IN  Returns("convert_crs", arg, r.raised, r.value, r.events)
    /\ UNCHANGED <<config, nclients>>

ConvertCrsFile ==
    /\ Idle /\ arg.fn = "_convert_crs_file"
    /\ LET r == _convert_crs_file(arg.fs, arg.source, arg.destination, arg.crs, arg.engine, arg.kwargs)
       IN  Returns("_convert_crs_file", arg, r.raised, r.value, r.events)
    /\ UNCHANGED <<config, nclients>>

NextCrs == ConvertCrs \/ ConvertCrsFile

SpecCrs == InitCrs /\ [][NextCrs]_vars

----------------------------------------------------------------------------
(* Reading a call's trace *)

GenerateOps == {"generate_from_kml", "generate_from_isochrones"}

\* the places of the events of one kind
EventsAt(kind) == {i \in 1..Len(trace) : trace[i].ev = kind}

\* the directions requests of the batch that ends just before place i: the
\* longest run of directions events ending at i - 1
RequestsBefore(i) ==
    LET start == CHOOSE j \in 1..i :
                    /\ \A k \in j..(i - 1) : trace[k].ev = "directions"
                    /\ j = 1 \/ trace[j - 1].ev # "directions"
    IN  SubSeq(trace, start, i - 1)

\* the origins of the batch whose geometry event is at place i: the points of
\* the KML file, or the ring of the row (one geometry event per row so far)
OriginsOfBatch(i) ==
    IF op = "generate_from_kml"
    THEN arg.kml
    ELSE arg.dataframe.rows[Cardinality({j \in EventsAt("geometry") : j <= i})].ring

\* the requests of the batch that was being fetched when the call ended
LastRequests == RequestsBefore(Len(trace) + 1)

RECURSIVE Kept(_)
\* the responses other than []
Kept(requests) ==
    IF requests = <<>> THEN <<>>
    ELSE IF Head(requests).response = List(<<>>) THEN Kept(Tail(requests))
    ELSE <<Head(requests).response>> \o Kept(Tail(requests))

----------------------------------------------------------------------------
(* Configuration Store *)

ClientUnset == config.client = NoneObject

\* C1: get_client() raises RuntimeError and returns no client exactly when the
\* client is not set, and returns the stored client otherwise; the client is
\* not set initially and after stop_client, is set after a successful
\* start_client, and no other call changes it.
C1_GetClient ==
    /\ ClientUnset
    /\ [][/\ op' = "get_client" =>
                IF config'.client = NoneObject
                THEN raised'.type = "RuntimeError" /\ value' = NoneObject
                ELSE raised' = NoError /\ value' = config'.client
          /\ op' = "stop_client" => config'.client = NoneObject
          /\ op' = "start_client" /\ raised' = NoError => config'.client # NoneObject
          /\ ~(op' = "stop_client" \/ (op' = "start_client" /\ raised' = NoError))
                => config'.client = config.client]_vars

\* get_client() fails after a client was started and stopped again
C1_Witness == op = "get_client" /\ raised.type = "RuntimeError" /\ nclients > 0

\* C2 as stated: start_client with any non-empty key stores a new client and crs
C2_AnyNonEmptyKey ==
    op = "start_client" =>
        IF Falsy(arg.api_key)
        THEN raised = Error("ValueError", "API key is required")
        ELSE /\ raised = NoError
             /\ config.client = [serial |-> nclients, key |-> arg.api_key]
             /\ get_crs(config) = arg.crs

\* C2, amended: start_client with a missing key raises ValueError('API key is
\* required'); with a non-empty key that the client constructor accepts it
\* stores a client constructed by this call (the latest of the process) and
\* the given crs over whatever was there, and get_client() / get_crs() return
\* them; a key the constructor rejects makes the call raise.
C2_StartClient ==
    [][op' = "start_client" =>
        IF Falsy(arg'.api_key)
        THEN raised' = Error("ValueError", "API key is required")
        ELSE IF gm_Client(arg'.api_key, nclients + 1).raised = NoError
        THEN /\ raised' = NoError
             /\ nclients' = nclients + 1
             /\ config'.client = [serial |-> nclients', key |-> arg'.api_key]
             /\ config'.client # config.client
             /\ get_client(config') = [raised |-> NoError, value |-> config'.client]
             /\ get_crs(config') = arg'.crs
        ELSE raised' # NoError]_vars

\* a second client, started with another crs than the Config held
C2_Witness ==
    /\ op = "start_client" /\ raised = NoError
    /\ nclients = 2 /\ arg.crs = "epsg:27700" /\ config.crs = "epsg:27700"

\* C3: stop_client() never raises, leaves the client unset and leaves get_crs()
\* as it was, whatever the state it is called in.
C3_StopClient ==
    [][op' = "stop_client" =>
        /\ raised' = NoError
        /\ config'.client = NoneObject
        /\ get_client(config').raised.type = "RuntimeError"
        /\ get_crs(config') = get_crs(config)]_vars

\* stop_client() on a running client whose Config holds another crs than the default
C3_Witness ==
    op = "stop_client" /\ raised = NoError /\ nclients > 0 /\ config.crs = "epsg:27700"

\* C4: set_crs / change_crs never raise, store their argument whatever it is and
\* leave the client alone; a successful start_client stores its crs; no other
\* call changes the crs, which starts as 'epsg:4326'; get_crs() returns it.
C4_Crs ==
    /\ config.crs = "epsg:4326"
    /\ [][/\ op' \in {"set_crs", "change_crs"} =>
                /\ raised' = NoError
                /\ config'.crs = arg'.crs
                /\ config'.client = config.client
          /\ op' = "start_client" /\ raised' = NoError => config'.crs = arg'.crs
          /\ ~(op' \in {"set_crs", "change_crs"} \/ (op' = "start_client" /\ raised' = NoError))
                => config'.crs = config.crs
          /\ op' = "get_crs" => raised' = NoError /\ value' = config.crs]_vars

\* get_crs() returns the None that change_crs stored, with a client running
C4_Witness == op = "get_crs" /\ value = None /\ config.client # NoneObject

----------------------------------------------------------------------------
(* Route Fetcher *)

RECURSIVE Concat(_)
\* the concatenation of a sequence of sequences, in order
Concat(ss) == IF ss = <<>> THEN <<>> ELSE Head(ss) \o Concat(Tail(ss))

RECURSIVE decode_from(_, _, _)
\* what googlemaps.convert.decode_polyline returns for an encoded path: the
\* encoding holds, per point, the latitude and longitude differences from the
\* point before (from 0, 0 for the first); the points come out in order
decode_from(deltas, lat, lng) ==
    IF deltas = <<>>
    THEN <<>>
    ELSE LET la == lat + Head(deltas)[1]
             ln == lng + Head(deltas)[2]
         IN  <<[lat |-> la, lng |-> ln]>> \o decode_from(Tail(deltas), la, ln)

decode_polyline(points) == decode_from(points, 0, 0)

\* the [lat, lng] pairs of the steps of a leg, in step order then vertex order
VerticesOfLeg(leg) ==
    Concat([k \in 1..Len(leg.steps) |->
              LET points == decode_polyline(leg.steps[k].polyline.points)
              IN  [j \in 1..Len(points) |-> <<points[j].lat, points[j].lng>>]])

\* C6: for a non-empty response, _get_polyline_from_route returns the
\* concatenation of the decoded vertices of every step of every leg of the
\* response's route, in leg order, then step order, then vertex order, each
\* vertex a [lat, lng] pair.
C6_EveryLeg ==
    op = "_get_polyline_from_route" /\ ~NotTruthy(arg.route) =>
        /\ raised = NoError
        /\ value = Concat([k \in 1..Len(arg.route.items[1].legs) |->
                              VerticesOfLeg(arg.route.items[1].legs[k])])

\* a response of one route, one leg and one step of two vertices raises NameError
C6_Witness ==
    /\ op = "_get_polyline_from_route"
    /\ arg.route = List(<<Route(<<Leg(<<Step(<< <<40, 30>>, <<1, -1>> >>)>>)>>)>>)
    /\ raised = Error("NameError", "name 'gm' is not defined")

----------------------------------------------------------------------------
(* Geometry Assembler and Vector Writer *)

\* C7: whenever a non-empty RouteSet is assembled, the geometry has as many
\* paths as the RouteSet has routes, path k has as many pairs as route k, and
\* pair j of path k is (lng, lat) of the (lat, lng) pair j of route k.
C7_Transposed ==
    op \in GenerateOps \cup {"save_routes"} =>
        \A i \in EventsAt("geometry") :
            LET coords == trace[i].coords
                geoms == trace[i].geoms
            IN  /\ op = "save_routes" => coords = arg.coords
                /\ coords # <<>> =>
                    /\ Len(geoms) = Len(coords)
                    /\ \A k \in 1..Len(coords) :
                          /\ Len(geoms[k]) = Len(coords[k])
                          /\ \A j \in 1..Len(coords[k]) :
                                geoms[k][j] = <<coords[k][j][2], coords[k][j][1]>>

\* a RouteSet of two routes, of three and of two pairs, assembled
C7_Witness ==
    /\ op = "save_routes"
    /\ arg.coords = << << <<20, 10>>, <<40, 30>>, <<20, 10>> >>, << <<40, 30>>, <<20, 10>> >> >>
    /\ \E i \in EventsAt("geometry") : trace[i].geoms[2] = << <<30, 40>>, <<10, 20>> >>

\* C8: every vector file written holds one feature per Route of the RouteSet,
\* in route order, feature k with the geometry of route k and the id k - 1
\* (0, 1, ..., N-1).
C8_Features ==
    op \in GenerateOps \cup {"save_routes"} =>
        \A i \in EventsAt("write") :
            /\ i > 1 /\ trace[i - 1].ev = "geometry"
            /\ op = "save_routes" => trace[i - 1].coords = arg.coords
            /\ LET records == trace[i].records
                   routes == trace[i - 1].coords
               IN  /\ Len(records) = Len(routes)
                   /\ \A k \in 1..Len(records) :
                         /\ records[k].properties.id = k - 1
                         /\ records[k].geometry.type = "LineString"
                         /\ Len(records[k].geometry.coordinates) = Len(routes[k])
                         /\ \A j \in 1..Len(routes[k]) :
                               records[k].geometry.coordinates[j] = <<routes[k][j][2], routes[k][j][1]>>

\* a file of two features, the second with id 1, written for two routes
C8_Witness ==
    /\ op = "save_routes" /\ Len(arg.coords) = 2 /\ arg.coords[1] # arg.coords[2]
    /\ \E i \in EventsAt("write") :
          /\ Len(trace[i].records) = 2
          /\ trace[i].records[1].properties.id = 0
          /\ trace[i].records[2].properties.id = 1

\* C9: generate_from_kml / generate_from_isochrones hand the vector sink the
\* crs argument when one is given (neither None nor ''), otherwise the value
\* get_crs() had when the call started, and leave the Config as it was.
C9_CrsResolution ==
    [][op' \in GenerateOps =>
        /\ config' = config
        /\ \A i \in 1..Len(trace') :
              trace'[i].ev = "write" =>
                  trace'[i].crs = IF arg'.crs \notin {None, ""} THEN arg'.crs ELSE get_crs(config)]_vars

\* a file written in the crs of the call while the Config holds another one
C9_Witness ==
    /\ op = "generate_from_isochrones"
    /\ arg.crs = "epsg:27700" /\ config.crs = "epsg:4326"
    /\ \E i \in EventsAt("write") : trace[i].crs = "epsg:27700"

----------------------------------------------------------------------------
(* Isochrone-Driven Batch Orchestrator *)

\* the required columns that the table of a call lacks
GeometryColumnMissing ==
    (IF arg.geometry_column # None THEN arg.geometry_column ELSE "geometry") \notin arg.dataframe.columns

NamedColumnMissing ==
    \/ arg.geometry_column # None /\ arg.geometry_column \notin arg.dataframe.columns
    \/ arg.schools_column \notin arg.dataframe.columns
    \/ arg.school_coords_column[1] \notin arg.dataframe.columns
    \/ arg.school_coords_column[2] \notin arg.dataframe.columns

\* C10 as stated, for a table that has rows and an active geometry column and
\* a call made with a running client: if the table lacks the geometry column
\* (named, or "geometry" by default), the label column or a coordinate column,
\* the call raises KeyError / ValueError with no request and no file
C10_AnyColumnMissing ==
    /\ op = "generate_from_isochrones" /\ ~ClientUnset
    /\ arg.dataframe.rows # <<>> /\ arg.dataframe.geometry # None
    /\ (GeometryColumnMissing \/ NamedColumnMissing)
    => raised.type \in {"KeyError", "ValueError"} /\ trace = <<>>

\* C10, amended: with a running client, a table that lacks the geometry column
\* named in the call, the label column or a coordinate column makes the call
\* raise KeyError / ValueError with no directions request issued and no file
\* written.  When no geometry column is named, a table without a "geometry"
\* column is not rejected for it: the call goes on with the table's active
\* geometry column and fails only at its first row (AttributeError, still
\* with no request and no file) if the table has none.
C10_NamedColumnMissing ==
    op = "generate_from_isochrones" /\ ~ClientUnset =>
        /\ NamedColumnMissing => raised.type \in {"KeyError", "ValueError"} /\ trace = <<>>
        /\ ~NamedColumnMissing /\ GeometryColumnMissing =>
              IF arg.dataframe.geometry = None /\ arg.dataframe.rows # <<>>
              THEN raised.type = "AttributeError" /\ trace = <<>>
              ELSE raised = NoError /\ Cardinality(EventsAt("write")) = Len(arg.dataframe.rows)

\* the geometry column named in the call is not in the table
C10_Witness ==
    /\ op = "generate_from_isochrones" /\ ~ClientUnset
    /\ arg.geometry_column = "geom" /\ "geom" \notin arg.dataframe.columns
    /\ arg.dataframe.rows # <<>>
    /\ raised.type = "KeyError" /\ trace = <<>>

----------------------------------------------------------------------------
(* The directions requests of a call *)

\* the places where a batch of directions requests starts
BatchStarts == {i \in EventsAt("directions") : i = 1 \/ trace[i - 1].ev # "directions"}

\* the number of requests of the batch that starts at place i
BatchLen(i) ==
    CHOOSE n \in 1..Len(trace) :
        /\ \A j \in i..(i + n - 1) : j <= Len(trace) /\ trace[j].ev = "directions"
        /\ i + n > Len(trace) \/ trace[i + n].ev # "directions"

\* the origins of the batch that starts at place i, the k-th batch of the
\* call: the points of the KML file as [lat, lng], or the coordinates of the
\* exterior ring of row k as [lat, lng]
BatchOrigins(i) ==
    IF op = "generate_from_kml"
    THEN [j \in 1..Len(arg.kml) |-> <<arg.kml[j][2], arg.kml[j][1]>>]
    ELSE LET ring == arg.dataframe.rows[Cardinality({b \in BatchStarts : b <= i})].ring
         IN  [j \in 1..Len(ring) |-> <<ring[j][2], ring[j][1]>>]

\* C12 as stated: a row of generate_from_isochrones whose requests all
\* returned caused one request per boundary vertex of its polygon
C12_OncePerVertex ==
    op = "generate_from_isochrones" =>
        \A i \in BatchStarts :
            trace[i + BatchLen(i) - 1].raised = NoError =>
                BatchLen(i) = Cardinality({BatchOrigins(i)[j] : j \in 1..Len(BatchOrigins(i))})

\* C12, amended: the directions service is called one call at a time, once
\* per entry of the batch's list of origins and in the order of the list: the
\* points of the KML file, or the coordinates of the exterior ring of the
\* row's polygon, which is closed, so that a polygon of N boundary vertices
\* causes N + 1 calls, the first vertex requested first and last.  There is
\* no retry: a call that raises is the last thing the operation does, its
\* error is the error of the operation, and only a batch ended by such a call
\* is shorter than its list of origins.
C12_Requests ==
    op \in GenerateOps =>
        \A i \in BatchStarts :
            LET n == BatchLen(i)
                origins == BatchOrigins(i)
            IN  /\ n <= Len(origins)
                /\ \A j \in 1..n :
                      /\ trace[i + j - 1].origin = origins[j]
                      /\ trace[i + j - 1].raised # NoError =>
                            /\ i + j - 1 = Len(trace)
                            /\ raised = trace[i + j - 1].raised
                /\ n < Len(origins) => trace[i + n - 1].raised # NoError
                /\ op = "generate_from_isochrones" =>
                      /\ origins[Len(origins)] = origins[1]
                      /\ Len(origins) = Cardinality({origins[j] : j \in 1..Len(origins)}) + 1

\* a row of a triangle: the request for its first vertex returns, the one for
\* its second raises the provider's error, and the other two are not issued
C12_Witness ==
    /\ op = "generate_from_isochrones" /\ raised.type = "ApiError"
    /\ Len(arg.dataframe.rows[1].ring) = 4
    /\ Len(trace) = 2
    /\ trace[1].raised = NoError /\ trace[2].raised = raised

----------------------------------------------------------------------------
(* The rows of a table *)

\* the places of the events of row j
EventsOfRow(j) == {i \in 1..Len(trace) : trace[i].row = j}

\* C13: when generate_from_isochrones fails on a table with rows, there is a
\* row k such that nothing was done for a row after k (no directions request,
\* no file, no map) and every row before k has all its requests and exactly
\* one file, written at the path of that row: the failure of row k reached
\* the caller and the files written before it stay as written.
C13_RowFailure ==
    op = "generate_from_isochrones" /\ raised # NoError /\ arg.dataframe.rows # <<>> =>
        LET rows == arg.dataframe.rows
        IN  \E k \in 1..Len(rows) :
                /\ \A i \in 1..Len(trace) : trace[i].row <= k
                /\ \A i \in 1..Len(trace) : i > 1 => trace[i - 1].row <= trace[i].row
                /\ \A j \in 1..(k - 1) :
                      /\ Cardinality({i \in EventsOfRow(j) : trace[i].ev = "directions"})
                            = Len(rows[j].ring)
                      /\ \E i \in EventsOfRow(j) :
                            /\ trace[i].ev = "write"
                            /\ trace[i].path[2] = rows[j].school
                            /\ \A h \in EventsOfRow(j) : trace[h].ev = "write" => h = i

\* the second of three rows is a multipolygon: the file of the first row is
\* there and nothing was done for the third
C13_Witness ==
    /\ op = "generate_from_isochrones" /\ raised.type = "AttributeError"
    /\ Len(arg.dataframe.rows) = 3
    /\ arg.dataframe.rows[2].geom_type = "MultiPolygon"
    /\ arg.dataframe.rows[3].geom_type = "Polygon"
    /\ trace # <<>>
    /\ trace[Len(trace)].ev = "write" /\ trace[Len(trace)].row = 1

----------------------------------------------------------------------------
(* Extension Resolver *)

\* the extension of a path: from its last '.' on, when that '.' is in the
\* last component of the path and follows a character of it other than '.'
ExtensionOf(path) ==
    LET dots == {d \in 1..Len(path) :
                    /\ path[d] = "."
                    /\ \A j \in (d + 1)..Len(path) : path[j] \notin {".", "/"}
                    /\ \E j \in 1..(d - 1) :
                          path[j] # "." /\ \A h \in j..d : path[h] # "/"}
    IN  IF dots = {} THEN <<>> ELSE SubSeq(path, CHOOSE d \in dots : TRUE, Len(path))

\* two strings that differ at most in the case of their letters, the first
\* without an upper-case letter
LowerCased(low, str) ==
    /\ Len(low) = Len(str)
    /\ \A k \in 1..Len(str) :
          /\ low[k] = str[k] \/ <<str[k], low[k]>> \in CasePairs
          /\ \A pair \in CasePairs : low[k] # pair[1]

\* C14: choose_driver returns 'ESRI Shapefile', 'GPKG', 'GeoJSON' for a path
\* whose extension is '.shp', '.gpkg', '.geojson' in any case of its letters,
\* and for every other path raises FileExtensionError whose ext is the
\* lower-cased extension of the path ('' when it has none);
\* check_file_extension returns True when the lower-cased extension is in the
\* allowed set and raises FileExtensionError with that ext otherwise.
C14_Extensions ==
    op \in {"choose_driver", "check_file_extension"} =>
        LET ext == ExtensionOf(arg.file_path)
            known == {<<".", "s", "h", "p">>, <<".", "g", "p", "k", "g">>,
                      <<".", "g", "e", "o", "j", "s", "o", "n">>}
            allowed == IF op = "choose_driver" THEN known
                       ELSE {low \in {lower(e) : e \in FilePaths \cup Suffixes} :
                               \E k \in 1..Len(arg.valid_extensions) :
                                   \/ LowerCased(low, arg.valid_extensions[k])
                                   \/ /\ arg.valid_extensions[k] # <<>>
                                      /\ arg.valid_extensions[k][1] # "."
                                      /\ LowerCased(low, <<".">> \o arg.valid_extensions[k])}
        IN  IF \E low \in allowed : LowerCased(low, ext)
            THEN /\ raised = NoError
                 /\ op = "check_file_extension" => value = "True"
                 /\ op = "choose_driver" =>
                       value = CASE LowerCased(<<".", "s", "h", "p">>, ext) -> "ESRI Shapefile"
                                 [] LowerCased(<<".", "g", "p", "k", "g">>, ext) -> "GPKG"
                                 [] OTHER -> "GeoJSON"
            ELSE /\ raised.type = "FileExtensionError"
                 /\ LowerCased(raised.ext, ext)

\* choose_driver('x.TXT') raises with the ext '.txt'
C14_Witness ==
    /\ op = "choose_driver"
    /\ arg.file_path = <<"x", ".", "T", "X", "T">>
    /\ raised.type = "FileExtensionError" /\ raised.ext = <<".", "t", "x", "t">>

----------------------------------------------------------------------------
(* The decorator validate_file_extension *)

\* the decorated function has been invoked
Invoked == \E k \in 1..Len(trace) : trace[k].ev = "call"

PathNotFound == raised.type = "FileExtensionError" /\ raised.msg = "File or directory does not exist: {filepath}"

InvalidExtension ==
    /\ raised.type = "FileExtensionError"
    /\ raised.msg = "Invalid file extension: {ext}. Supported extensions: {', '.join(valid_extensions)}"

\* C15: a call of the decorated function with a path that does not exist
\* raises the path-not-found error, whatever the extension and the value of
\* skip_invalid, and the function is not invoked; the extension error is
\* raised only for a path that exists.
C15_ExistenceFirst ==
    op = "_convert_crs_file" =>
        /\ ~exists(arg.fs, arg.source) => PathNotFound /\ ~Invoked /\ trace = <<>>
        /\ InvalidExtension => exists(arg.fs, arg.source)

\* 'x.txt' does not exist and is called with skip_invalid=True
C15_Witness ==
    /\ op = "_convert_crs_file"
    /\ arg.source = <<"x", ".", "t", "x", "t">>
    /\ ~exists(arg.fs, arg.source)
    /\ GetKwarg(arg.kwargs, "skip_invalid", FALSE)
    /\ PathNotFound

----------------------------------------------------------------------------
(* Geometry Assembler: the RouteSet with no route *)

\* the requests at the places in a set are one per origin and every one of
\* them was answered with the empty list
AllEmpty(places, origins) ==
    /\ Cardinality(places) = Len(origins)
    /\ \A i \in places : trace[i].raised = NoError /\ trace[i].response = List(<<>>)

\* C16 as stated: when every origin of a batch was answered with an empty
\* response, the call fails, no file is written and no map is rendered for
\* that batch.
C16_EmptyRouteSetFails ==
    /\ op = "generate_from_kml" /\ AllEmpty(EventsAt("directions"), arg.kml) =>
          /\ raised # NoError
          /\ EventsAt("write") = {} /\ EventsAt("map") = {}
    /\ op = "generate_from_isochrones" =>
          \A j \in 1..Len(arg.dataframe.rows) :
              AllEmpty({i \in EventsOfRow(j) : trace[i].ev = "directions"}, arg.dataframe.rows[j].ring) =>
                  /\ raised # NoError
                  /\ \A i \in EventsOfRow(j) : trace[i].ev \notin {"write", "map"}

\* both points of a KML file were answered with the empty list: the call
\* returns and has written a file without features
C16_Witness ==
    /\ op = "generate_from_kml" /\ raised = NoError
    /\ Len(arg.kml) = 2 /\ AllEmpty(EventsAt("directions"), arg.kml)
    /\ \E i \in EventsAt("write") : trace[i].records = <<>>

----------------------------------------------------------------------------
(* Map Renderer *)

\* C17: _plot_routes, given at least one route and no empty route, saves one
\* map to the output path, centred on the first coordinate of the first
\* route, with one 'Start' marker per route at the first coordinate of that
\* route and one line per route through the vertices of that route in order;
\* given no route it raises IndexError and saves nothing.
C17_PlotRoutes ==
    op = "_plot_routes" =>
        LET routes == arg.routes
        IN  /\ routes # <<>> /\ (\A k \in 1..Len(routes) : routes[k] # <<>>) =>
                  /\ raised = NoError
                  /\ Len(trace) = 1 /\ trace[1].ev = "map" /\ trace[1].output = arg.output
                  /\ trace[1].location = routes[1][1]
                  /\ Len(trace[1].markers) = Len(routes)
                  /\ Len(trace[1].lines) = Len(routes)
                  /\ \A k \in 1..Len(routes) :
                        /\ trace[1].markers[k] = [at |-> routes[k][1], popup |-> "Start"]
                        /\ trace[1].lines[k] = routes[k]
            /\ routes = <<>> => raised.type = "IndexError" /\ trace = <<>>

\* a map of two routes that start at different places
C17_Witness ==
    /\ op = "_plot_routes" /\ raised = NoError
    /\ Len(arg.routes) = 2 /\ arg.routes[1][1] # arg.routes[2][1]
    /\ Len(trace) = 1 /\ Len(trace[1].markers) = 2

----------------------------------------------------------------------------
(* Point writers *)

\* the value is a number or a string that float() converts
Numeric(v) == float(v).raised = NoError

\* C18 as stated: create_school_shapefile writes one Point feature at
\* (lng, lat) with the integer id 1; create_multi_points_shapefile, given a
\* table of N rows whose coordinate columns hold numbers, returns without
\* error having written N Point features in row order, feature k at
\* (longitude, latitude) of row k with the id of row k.
C18_OneFeaturePerPoint ==
    /\ op = "create_school_shapefile" /\ Numeric(arg.lat) /\ Numeric(arg.lng) =>
          /\ raised = NoError
          /\ Len(trace) = 1 /\ trace[1].ev = "write" /\ trace[1].path = arg.output
          /\ trace[1].records
                = <<[geometry |-> Point(float(arg.lng).value, float(arg.lat).value),
                     properties |-> [id |-> 1]]>>
    /\ /\ op = "create_multi_points_shapefile"
       /\ \A k \in 1..Len(arg.dataframe) :
             /\ {arg.longitude_column, arg.latitude_column, arg.id_column} \subseteq DOMAIN arg.dataframe[k]
             /\ Numeric(arg.dataframe[k][arg.longitude_column])
             /\ Numeric(arg.dataframe[k][arg.latitude_column])
       => /\ raised = NoError
          /\ Len(trace) = 1 /\ trace[1].ev = "write" /\ trace[1].path = arg.output
          /\ Len(trace[1].records) = Len(arg.dataframe)
          /\ \A k \in 1..Len(arg.dataframe) :
                trace[1].records[k]
                    = [geometry |-> Point(float(arg.dataframe[k][arg.longitude_column]).value,
                                          float(arg.dataframe[k][arg.latitude_column]).value),
                       properties |-> [id |-> arg.dataframe[k][arg.id_column]]]

\* a table of two rows with numeric coordinates: the call raises while the
\* records are built, and the file it has opened holds no feature
C18_Witness ==
    /\ op = "create_multi_points_shapefile" /\ raised.type = "ValueError"
    /\ Len(arg.dataframe) = 2
    /\ \A k \in 1..2 : Numeric(arg.dataframe[k].Longitude) /\ Numeric(arg.dataframe[k].Latitude)
    /\ arg.longitude_column = "Longitude"
    /\ Len(trace) = 1 /\ trace[1].records = <<>>

----------------------------------------------------------------------------
(* convert_crs *)

\* the extension of the path is one of the three the decorator accepts
Supported(path) ==
    \E low \in {<<".", "s", "h", "p">>, <<".", "g", "p", "k", "g">>,
                 <<".", "g", "e", "o", "j", "s", "o", "n">>} :
        LowerCased(low, ExtensionOf(path))

\* the files converted by the call, in the order of their conversion, as
\* pairs of the file read and the file written
Converted ==
    LET at == SelectSeq([i \in 1..Len(trace) |-> i], LAMBDA i : trace[i].ev = "to_file")
    IN  [k \in 1..Len(at) |-> <<trace[at[k]].source, trace[at[k]].destination>>]

\* the conversions of the entries of a listing, each to the entry of the
\* same name in the destination
ConversionsOf(entries) ==
    [k \in 1..Len(entries) |-> <<join(arg.source, entries[k]), join(arg.destination, entries[k])>>]

\* C19: convert_crs on a source directory and a destination directory goes
\* through the entries in the order of the listing.  With skip_invalid=True
\* it returns having converted the entries with a supported extension, and
\* only those.  With skip_invalid=False it converts the entries up to the
\* first one with an unsupported extension, raises FileExtensionError for
\* that one and converts none after it.  On a single file with an
\* unsupported extension it raises FileExtensionError and converts nothing.
C19_ConvertDirectory ==
    op = "convert_crs" =>
        /\ isdir(arg.fs, arg.source) /\ isdir(arg.fs, arg.destination) =>
              LET entries == listdir(arg.fs, arg.source)
                  invalid == {k \in 1..Len(entries) : ~Supported(entries[k])}
              IN  IF arg.skip_invalid \/ invalid = {}
                  THEN /\ raised = NoError
                       /\ Converted = ConversionsOf(SelectSeq(entries, Supported))
                  ELSE LET first == CHOOSE k \in invalid : \A j \in invalid : k <= j
                       IN  /\ InvalidExtension
                           /\ LowerCased(raised.ext, ExtensionOf(entries[first]))
                           /\ Converted = ConversionsOf(SubSeq(entries, 1, first - 1))
        /\ arg.source \in arg.fs.files /\ ~Supported(arg.source) =>
              raised.type = "FileExtensionError" /\ Converted = <<>>

\* a shapefile, a text file and a geopackage, listed in that order and
\* converted with skip_invalid=False: the shapefile is converted, the text
\* file raises, the geopackage is not converted
C19_Witness ==
    /\ op = "convert_crs" /\ ~arg.skip_invalid
    /\ arg.destination = DestinationDir
    /\ isdir(arg.fs, arg.source)
    /\ listdir(arg.fs, arg.source)
          = << <<"a", ".", "s", "h", "p">>, <<"c", ".", "t", "x", "t">>, <<"b", ".", "G", "P", "K", "G">> >>
    /\ InvalidExtension
    /\ Converted = << <<join(SourceDir, <<"a", ".", "s", "h", "p">>),
                         join(DestinationDir, <<"a", ".", "s", "h", "p">>)>> >>

----------------------------------------------------------------------------
(* The driver the decorator passes on *)

\* the driver that goes with the extension of a supported path
DriverOf(path) ==
    CASE LowerCased(<<".", "s", "h", "p">>, ExtensionOf(path)) -> "ESRI Shapefile"
      [] LowerCased(<<".", "g", "p", "k", "g">>, ExtensionOf(path)) -> "GPKG"
      [] OTHER -> "GeoJSON"

\* the places where the decorated function was invoked
Calls == EventsAt("call")

----------------------------------------------------------------------------
(* The arguments of the directions requests of generate_from_kml *)

\* C21 as stated: every directions request of generate_from_kml has the
\* caller's departure_time as departure_time, the caller's arrival_time as
\* arrival_time, the caller's mode as mode and 'uk' as region.
C21_ArgumentsForwarded ==
    op = "generate_from_kml" =>
        \A i \in EventsAt("directions") :
            /\ trace[i].request.departure_time = arg.departure_time
            /\ trace[i].request.arrival_time = arg.arrival_time
            /\ trace[i].request.mode = arg.mode
            /\ trace[i].request.region = "uk"

\* a call with a departure time and a later arrival time: the request has
\* the departure time as region, the arrival time as departure_time and no
\* arrival_time
C21_Witness ==
    /\ op = "generate_from_kml"
    /\ arg.departure_time = "2026-01-05 08:00" /\ arg.arrival_time = "2026-01-05 09:00"
    /\ EventsAt("directions") # {}
    /\ \A i \in EventsAt("directions") :
          /\ trace[i].request.region = "2026-01-05 08:00"
          /\ trace[i].request.departure_time = "2026-01-05 09:00"
          /\ trace[i].request.arrival_time = None
          /\ trace[i].request.mode = arg.mode

----------------------------------------------------------------------------
(* The failures of generate_from_isochrones that its arguments decide *)

\* C22 as stated: a call of generate_from_isochrones that fails with
\* routes_output=None, or while the client is not set, has issued no
\* directions request.
C22_FailsBeforeRequests ==
    /\ op = "generate_from_isochrones" /\ raised # NoError
    /\ arg.routes_output = None \/ ClientUnset
    => EventsAt("directions") = {}

\* routes_output=None with a started client: every vertex of the first row
\* was requested before the call raised TypeError, and no file was written
C22_Witness ==
    /\ op = "generate_from_isochrones" /\ arg.routes_output = None
    /\ raised.type = "TypeError"
    /\ Len(arg.dataframe.rows) = 2
    /\ Cardinality(EventsAt("directions")) = Len(arg.dataframe.rows[1].ring)
    /\ EventsAt("write") = {}

----------------------------------------------------------------------------
(* The file of a batch is opened after the batch is assembled *)

\* C23: in generate_from_kml and in each row of generate_from_isochrones, a
\* file is written only directly after the geometry of its batch was
\* assembled, which is after one directions request per origin of the batch
\* has returned without error and the responses other than [] were decoded;
\* the file holds one feature per line of that geometry, in order.  Hence a
\* call that ends on a failed request, or on a response that cannot be
\* decoded or assembled, has written no file for that batch.
C23_WriteAfterAssembly ==
    op \in GenerateOps =>
        /\ \A w \in EventsAt("write") :
              /\ w > 1 /\ trace[w - 1].ev = "geometry"
              /\ LET requests == RequestsBefore(w - 1)
                 IN  /\ Len(requests) = Len(OriginsOfBatch(w - 1))
                     /\ \A k \in 1..Len(requests) : requests[k].raised = NoError
                     /\ Len(trace[w - 1].coords) = Len(Kept(requests))
              /\ Len(trace[w].records) = Len(trace[w - 1].geoms)
              /\ \A k \in 1..Len(trace[w].records) :
                    /\ trace[w].records[k].geometry.coordinates = trace[w - 1].geoms[k]
                    /\ trace[w].records[k].properties.id = k - 1
        /\ raised # NoError /\ trace # <<>> /\ trace[Len(trace)].ev = "directions" =>
              \A w \in EventsAt("write") :
                  /\ op = "generate_from_isochrones"
                  /\ trace[w].row < trace[Len(trace)].row

\* the second of two requests of a KML file fails: the call raises and no
\* file was written
C23_Witness ==
    /\ op = "generate_from_kml" /\ raised # NoError
    /\ Len(trace) = 2
    /\ trace[1].ev = "directions" /\ trace[1].raised = NoError
    /\ trace[2].ev = "directions" /\ trace[2].raised = raised
    /\ EventsAt("write") = {}

----------------------------------------------------------------------------
(* A start_client that fails *)

\* C24: a start_client call that raises, for a missing key or for a key the
\* client constructor rejects, leaves every attribute of the Config as it
\* was: get_client() and get_crs() give after the call what they gave before
\* it, and no client was constructed.
C24_FailedStart ==
    [][op' = "start_client" /\ raised' # NoError =>
        /\ config' = config
        /\ get_client(config') = get_client(config)
        /\ get_crs(config') = get_crs(config)
        /\ nclients' = nclients]_vars

\* a key the constructor rejects, given with another crs while a client is
\* stored: the client and the crs of the Config are the earlier ones
C24_Witness ==
    /\ op = "start_client" /\ raised # NoError
    /\ arg.api_key = "my-key" /\ arg.crs = "epsg:27700"
    /\ config.client # NoneObject /\ config.crs = "epsg:4326"

----------------------------------------------------------------------------
(* The files and the map left by the rows of a table *)

\* what a path holds when the call has ended: the last event of a kind that
\* went to that path
LastAt(kind, field, path) ==
    LET at == {i \in EventsAt(kind) : trace[i][field] = path}
    IN  trace[CHOOSE i \in at : \A j \in at : j <= i]

\* the path of the file of a row
PathOfRow(j) == <<arg.routes_output, arg.rows[j].school, ".gpkg">>

\* C25: when the loop of generate_from_isochrones has gone through all the
\* rows of a table of at least one row with plot_routes=True, every row has
\* rendered one map, all to map_output, so that map_output holds the routes
\* of the last row; there is one file per distinct label, and the file of a
\* label holds the routes of the last row with that label.
C25_LastRowWins ==
    op = "save_rows" /\ raised = NoError /\ arg.plot_routes /\ arg.rows # <<>> =>
        LET n == Len(arg.rows)
        IN  /\ \A j \in 1..n :
                  Cardinality({i \in EventsOfRow(j) : trace[i].ev = "map"}) = 1
            /\ \A i \in EventsAt("map") : trace[i].output = arg.map_output
            /\ LastAt("map", "output", arg.map_output).lines = arg.rows[n].coords
            /\ {trace[i].path : i \in EventsAt("write")} = {PathOfRow(j) : j \in 1..n}
            /\ \A j \in 1..n :
                  (\A h \in (j + 1)..n : arg.rows[h].school # arg.rows[j].school) =>
                      /\ LastAt("write", "path", PathOfRow(j)).row = j
                      /\ LastAt("write", "path", PathOfRow(j)).records
                            = records_of(transposed(arg.rows[j].coords))

\* three rows, the first and the third with the same label and different
\* routes: two files, the one of that label with the routes of the third
\* row, and a map of the third row
C25_Witness ==
    /\ op = "save_rows" /\ raised = NoError /\ arg.plot_routes
    /\ Len(arg.rows) = 3
    /\ arg.rows[1].school = arg.rows[3].school /\ arg.rows[2].school # arg.rows[1].school
    /\ arg.rows[1].coords # arg.rows[3].coords /\ arg.rows[2].coords # arg.rows[3].coords
    /\ Cardinality({trace[i].path : i \in EventsAt("write")}) = 2
    /\ Cardinality(EventsAt("map")) = 3

====
